---- MODULE Spec2Model ----
(***************************************************************************)
(* Secure link lifecycle of DATA-GUARDIAN: the durable store (SecureLink,  *)
(* UserData, AuditLog with their foreign keys), the Redis session store,   *)
(* the read paths, the kill switch, scheduled cleanup and the SSE stream.  *)
(* Time is the server clock in whole seconds.  One model identifier stands *)
(* for a link's id, its access token, its owner token and its userId: all  *)
(* four are unique per link and never reused.                              *)
(***************************************************************************)
EXTENDS Integers, Sequences, FiniteSets, TLC

\* ------------------------------------------------------------------ bounds
\* last value of the server clock
MaxTime == 4
\* link validities offered at creation are 1..MaxValidity clock units
MaxValidity == 2
\* session TTLs passed to createSession are 1..MaxTtl seconds
MaxTtl == 2
\* last value of the server clock, validity and session TTL in the stream runs
StreamMaxTime == 11
StreamValidity == 6
StreamTtl == 6
\* the limit and the window, in seconds, passed to checkRateLimit
RlLimit == 2
RlWindow == 3
\* longest phone string passed to maskPhone, in characters
MaxPhoneLen == 5
\* longest binary blob passed to encryptBuffer, in bytes
MaxBlobLen == 2
\* most files attached to one createSecureLinkWithFiles request
MaxFiles == 4

LinkIds == {1, 2}
SessionIds == {"s1", "s2"}
Owners == {"o1", "o2"}
Runners == {"c1", "c2"}
Callers == {"a", "b"}

\* ------------------------------------------------------- program constants
REVOKED_TTL == 86400
HEARTBEAT_SECONDS == 5
IV_LENGTH == 16
AUTH_TAG_LENGTH == 16

\* the null of a nullable column (AuditLog.linkId)
NULL == 0
\* no value under a Redis key
Nil == "nil"
NoCookie == "none"

VARIABLES
    now,              \* server clock, seconds
    redisConfigured,  \* UPSTASH_REDIS_REST_URL / TOKEN present
    secureLink,       \* SecureLink rows, keyed by id (= token = ownerToken)
    userData,         \* ids of the UserData rows
    created,          \* ids handed out so far (tokens are never reused)
    auditLog,         \* AuditLog rows in insertion order
    active,           \* Redis active:<token>   -> [val, ex]
    session,          \* Redis session:<token>:<sid> -> expiry (0 = no key)
    revoked,          \* Redis revoked:<token>  -> expiry (0 = no key)
    rv,               \* revokeAccess calls in progress, per caller
    cl,               \* cleanupExpiredData call in progress
    cs,               \* createSession calls in progress, per caller
    st,               \* the SSE stream of GET /api/stream/[token]
    lastRead,         \* response of the read handler that ran last
    hist,             \* history: what revokeAccess and cleanup have done
    sessHist,         \* history: the createSession / invalidateSession calls
    rlKey,            \* Redis rate-limit counter key -> [val, ex] (val 0 = no key)
    rlCall,           \* checkRateLimit calls in progress, per caller
    rlHist,           \* history: increments of the counter, allowed calls
    phone,            \* argument of maskPhone, a sequence of characters
    masked,           \* what maskPhone returned for it (empty = not called)
    box               \* one encrypted unit: what was encrypted, what is stored
                      \* for it and what decryption and the read paths returned

vars == <<now, redisConfigured, secureLink, userData, created, auditLog,
          active, session, revoked, rv, cl, cs, st, lastRead, hist, sessHist,
          rlKey, rlCall, rlHist, phone, masked, box>>

\* --------------------------------------------------------------- helpers
Min(a, b) == IF a <= b THEN a ELSE b
Max(a, b) == IF a >= b THEN a ELSE b

\* the outcomes a Redis call can have: it throws when Redis is not
\* configured and may throw (network) when it is
CallOutcomes == IF redisConfigured THEN BOOLEAN ELSE {FALSE}

NoKey == [val |-> Nil, ex |-> 0]
NoRead == [op |-> "none"]

\* ---------------------------------------------------------- durable store
\* prisma.secureLink.findUnique: the row or null
LinkExists(l) == l \in DOMAIN secureLink

\* an AuditLog_linkId_fkey that takes no action on delete
AuditKeepRefs(log, ids) == log

\* AuditLog_linkId_fkey ON DELETE SET NULL
AuditSetNull(log, ids) ==
    [i \in 1..Len(log) |->
        IF log[i].linkId \in ids THEN [log[i] EXCEPT !.linkId = NULL] ELSE log[i]]

\* a deleteMany that removes no row
DeleteLinksKeepsRows(tbl, ids) == tbl

\* rows of a table restricted to the ids that are kept
DeleteLinks(tbl, ids) == [l \in (DOMAIN tbl) \ ids |-> tbl[l]]

Audit(action, l) == [action |-> action, linkId |-> l]

\* calculateExpiry: now + validity
calculateExpiry(v) == now + v

\* the entries of a set of ids in ascending order, as audit rows
RECURSIVE AuditRows(_, _)
AuditRows(action, ids) ==
    IF ids = {} THEN <<>>
    ELSE LET m == CHOOSE x \in ids : \A y \in ids : x <= y
         IN  <<Audit(action, m)>> \o AuditRows(action, ids \ {m})

\* userData.delete / deleteMany: SecureLink_userId_fkey ON DELETE CASCADE
\* removes the links that own the rows, and the audit references to those
\* links are cleared
UserDataDeleted(ids) ==
    /\ userData' = userData \ ids
    /\ secureLink' = DeleteLinks(secureLink, ids)

\* ------------------------------------------------------------ Redis store
KeyExists(ex) == ex > now

\* redis.exists(revoked:<token>) === 1
isTokenRevoked(t) == KeyExists(revoked[t])

\* redis.get(active:<token>)
GetActive(t) == IF KeyExists(active[t].ex) THEN active[t].val ELSE Nil

\* a validation that only looks for the session key
validateSessionAnyKey(t, s) ==
    IF isTokenRevoked(t) THEN FALSE
    ELSE KeyExists(session[t][s])

\* validateSession(token, sessionId)
validateSession(t, s) ==
    IF isTokenRevoked(t) THEN FALSE
    ELSE IF GetActive(t) # s THEN FALSE
    ELSE KeyExists(session[t][s])

\* redis.ttl(session:<token>:<sid>): -2 when the key does not exist
getSessionTTL(t, s) == IF KeyExists(session[t][s]) THEN session[t][s] - now ELSE 0 - 2

\* the pipeline of createSession, given the active session id read before it
SessionAfterCreate(t, s, ttl, existing) ==
    [session EXCEPT ![t] =
        [x \in SessionIds |->
            IF x = s THEN now + ttl
            ELSE IF x = existing THEN 0
            ELSE session[t][x]]]

\* an active marker that is only set when none exists (SET ... NX)
ActiveAfterCreateNX(t, s, ttl) ==
    IF GetActive(t) # Nil THEN active ELSE [active EXCEPT ![t] = [val |-> s, ex |-> now + ttl]]

ActiveAfterCreate(t, s, ttl) == [active EXCEPT ![t] = [val |-> s, ex |-> now + ttl]]

\* a createSession that also clears the revoked marker of the token
createSessionClearsMarker(t, s, ttl) ==
    /\ session' = SessionAfterCreate(t, s, ttl, GetActive(t))
    /\ active' = ActiveAfterCreate(t, s, ttl)
    /\ revoked' = [revoked EXCEPT ![t] = 0]

\* createSession(token, sessionId, ttlSeconds)
createSession(t, s, ttl) ==
    /\ session' = SessionAfterCreate(t, s, ttl, GetActive(t))
    /\ active' = ActiveAfterCreate(t, s, ttl)
    /\ UNCHANGED revoked

\* the revoked marker written by invalidateSession
MarkerAfterInvalidate(t, permanentRevoke) ==
    IF permanentRevoke THEN [revoked EXCEPT ![t] = now + REVOKED_TTL] ELSE revoked

\* invalidateSession(token, permanentRevoke)
invalidateSession(t, permanentRevoke) ==
    /\ active' = [active EXCEPT ![t] = NoKey]
    /\ session' = [session EXCEPT ![t] =
                      [x \in SessionIds |-> IF x = GetActive(t) THEN 0 ELSE session[t][x]]]
    /\ revoked' = MarkerAfterInvalidate(t, permanentRevoke)

\* keys whose TTL has run out at time n are gone
ExpireKeys(n) ==
    /\ active' = [t \in LinkIds |-> IF active[t].ex > n THEN active[t] ELSE NoKey]
    /\ session' = [t \in LinkIds |-> [s \in SessionIds |->
                      IF session[t][s] > n THEN session[t][s] ELSE 0]]
    /\ revoked' = [t \in LinkIds |-> IF revoked[t] > n THEN revoked[t] ELSE 0]

\* ------------------------------------------------------------- read paths
\* result of a try* helper: the answer, or null when the call throws
Tri(ok, b) == IF ~ok THEN "null" ELSE IF b THEN "true" ELSE "false"

\* secureLink.expiresAt < now
IsExpired(l) == secureLink[l].expiresAt < now

\* Math.max(0, Math.floor((expiresAt - now) / 1000))
RemainingSeconds(l) == Max(0, secureLink[l].expiresAt - now)

\* a check that lets every link through
NotVerifiedNever(t) == FALSE

\* getUserData: if (!secureLink.isUsed), the one-time code was not verified
NotVerified(t) == ~secureLink[t].isUsed

\* getUserData(token) with the session_id cookie c
getUserData(t, c, ok1, ok2) ==
    LET revokedInRedis == Tri(ok1, isTokenRevoked(t))
        isValid == IF revokedInRedis = "true" \/ c = NoCookie THEN "skipped"
                   ELSE Tri(ok2, validateSession(t, c))
        errorType ==
            IF revokedInRedis = "true" THEN "REVOKED"
            ELSE IF isValid = "false" THEN "SESSION_INVALID"
            ELSE IF ~LinkExists(t) \/ t \notin userData THEN "NOT_FOUND"
            ELSE IF secureLink[t].isRevoked THEN "REVOKED"
            ELSE IF NotVerified(t) THEN "NOT_VERIFIED"
            ELSE IF IsExpired(t) THEN "EXPIRED"
            ELSE "NONE"
    IN  [op |-> "getUserData", token |-> t, sid |-> c,
         success |-> (errorType = "NONE"), error |-> errorType,
         revokedInRedis |-> revokedInRedis, isValid |-> isValid]

\* getFullUserData(token, sessionId); the empty sessionId is NoCookie
getFullUserData(t, c, ok1, ok2) ==
    LET revokedInRedis == Tri(ok1, isTokenRevoked(t))
        isValid == IF revokedInRedis = "true" THEN "skipped"
                   ELSE Tri(ok2, validateSession(t, c))
        error ==
            IF revokedInRedis = "true" THEN "Revoked"
            ELSE IF isValid = "false" THEN "Invalid session"
            ELSE IF ~LinkExists(t) \/ t \notin userData
                    \/ ~secureLink[t].isUsed \/ secureLink[t].isRevoked
                 THEN "Not accessible"
            ELSE IF IsExpired(t) THEN "Expired"
            ELSE "NONE"
    IN  [op |-> "getFullUserData", token |-> t, sid |-> c,
         success |-> (error = "NONE"), error |-> error,
         revokedInRedis |-> revokedInRedis, isValid |-> isValid]

\* an admission that does not test isUsed
StreamAdmissionUnverified(t, c, ok1, ok2) ==
    LET revokedInRedis == IF c = NoCookie THEN "skipped" ELSE Tri(ok1, isTokenRevoked(t))
        isValid == IF c = NoCookie \/ revokedInRedis = "true" THEN "skipped"
                   ELSE Tri(ok2, validateSession(t, c))
        error ==
            IF c = NoCookie THEN "401 Unauthorized: No session"
            ELSE IF revokedInRedis = "true" THEN "403 Access revoked"
            ELSE IF isValid = "false" THEN "401 Session invalid or expired"
            ELSE IF ~LinkExists(t) \/ t \notin userData \/ secureLink[t].isRevoked
                 THEN "404 Not accessible"
            ELSE IF IsExpired(t) THEN "410 Expired"
            ELSE "NONE"
    IN  [op |-> "stream", token |-> t, sid |-> c,
         success |-> (error = "NONE"), error |-> error,
         revokedInRedis |-> revokedInRedis, isValid |-> isValid]

\* the admission part of GET /api/stream/[token]
StreamAdmission(t, c, ok1, ok2) ==
    LET revokedInRedis == IF c = NoCookie THEN "skipped" ELSE Tri(ok1, isTokenRevoked(t))
        isValid == IF c = NoCookie \/ revokedInRedis = "true" THEN "skipped"
                   ELSE Tri(ok2, validateSession(t, c))
        error ==
            IF c = NoCookie THEN "401 Unauthorized: No session"
            ELSE IF revokedInRedis = "true" THEN "403 Access revoked"
            ELSE IF isValid = "false" THEN "401 Session invalid or expired"
            ELSE IF ~LinkExists(t) \/ t \notin userData
                    \/ ~secureLink[t].isUsed \/ secureLink[t].isRevoked
                 THEN "404 Not accessible"
            ELSE IF IsExpired(t) THEN "410 Expired"
            ELSE "NONE"
    IN  [op |-> "stream", token |-> t, sid |-> c,
         success |-> (error = "NONE"), error |-> error,
         revokedInRedis |-> revokedInRedis, isValid |-> isValid]

\* ------------------------------------------------------------------ state
IdleRevoke == [pc |-> "idle", link |-> 0, del |-> FALSE, invalidated |-> FALSE,
               result |-> "none"]
IdleCleanup == [pc |-> "idle", ids |-> {}, success |-> TRUE,
                deletedLinks |-> 0, deletedUsers |-> 0]
NoStream == [pc |-> "none", token |-> 0, sid |-> Nil, events |-> <<>>,
             closed |-> FALSE, interval |-> FALSE, nextTick |-> 0,
             dbRemainingSeconds |-> 0, aborted |-> FALSE, invalidAtTick |-> FALSE]
NoCommit == [set |-> FALSE, at |-> 0]
NoCounter == [val |-> 0, ex |-> 0]
NoRetry == [defined |-> FALSE, seconds |-> 0]
NoResult == [allowed |-> TRUE, remaining |-> 0, retryAfter |-> NoRetry, failed |-> FALSE]
IdleLimit == [pc |-> "idle", current |-> 0, nth |-> 0, at |-> 0, result |-> NoResult]
IdleCreate == [pc |-> "idle", token |-> 0, sid |-> Nil, ttl |-> 0, existing |-> Nil]
NoSessHist == [last |-> Nil, at |-> 0, ttl |-> 0, prev |-> Nil,
               marked |-> FALSE, markedAt |-> 0]

InitStores ==
    /\ now = 0
    /\ redisConfigured \in BOOLEAN
    /\ secureLink = <<>>
    /\ userData = {}
    /\ created = {}
    /\ auditLog = <<>>
    /\ active = [t \in LinkIds |-> NoKey]
    /\ session = [t \in LinkIds |-> [s \in SessionIds |-> 0]]
    /\ revoked = [t \in LinkIds |-> 0]
    /\ rv = [c \in Owners |-> IdleRevoke]
    /\ cl = [r \in Runners |-> IdleCleanup]
    /\ cs = [p \in Callers |-> IdleCreate]
    /\ st = NoStream
    /\ lastRead = NoRead
    /\ hist = [revokeOk |-> {}, cleaned |-> {}, duringStream |-> NoCommit]
    /\ sessHist = [t \in LinkIds |-> NoSessHist]
    /\ rlKey = NoCounter
    /\ rlCall = [p \in Callers |-> IdleLimit]
    /\ rlHist = [n |-> 0, expires |-> 0, allowedAt |-> <<>>]


\* a structured payload and its absence
NoPayload == [firstName |-> <<>>, age |-> 0]
\* the stored form of an encrypted unit: UserData.encryptedData (text), or a
\* file's encryptedContent with its iv and authTag columns
NoStored == [text |-> <<>>, content |-> <<>>, iv |-> <<>>, authTag |-> <<>>]
NoOut == [ok |-> FALSE, payload |-> NoPayload, blob |-> <<>>, error |-> "none"]
NoResponse == [op |-> "none", success |-> FALSE, status |-> 0, hasPayload |-> FALSE]
NoBox == [pc |-> "idle", kind |-> "none", x |-> NoPayload, b |-> <<>>,
          sealed |-> [iv |-> <<>>, ct |-> <<>>, tag |-> <<>>],
          produced |-> NoStored, stored |-> NoStored,
          out |-> NoOut, resp |-> NoResponse]

Init == InitStores /\ phone = <<>> /\ masked = <<>> /\ box = NoBox

fns == <<phone, masked, box>>
env == <<now, redisConfigured>>
durable == <<secureLink, userData, created, auditLog>>
cache == <<active, session, revoked>>
calls == <<rv, cl, cs>>
ghost == <<hist, sessHist>>
limiter == <<rlKey, rlCall, rlHist>>

\* the server clock advances by one second; Redis drops the keys whose TTL
\* has run out.  A heartbeat that is due fires, and its store calls answer,
\* before the clock moves on.
Tick(maxTime) ==
    /\ now < maxTime
    /\ st.interval => now < st.nextTick
    /\ st.pc \notin {"hb_db", "hb_ttl"}
    /\ now' = now + 1
    /\ ExpireKeys(now + 1)
    /\ rlKey' = IF rlKey.ex > 0 /\ rlKey.ex <= now + 1 THEN NoCounter ELSE rlKey
    /\ lastRead' = NoRead
    /\ UNCHANGED <<redisConfigured, fns, durable, calls, st, ghost, rlCall, rlHist>>

\* --------------------------------------------------------------- creation
\* createSecureLink / createSecureLinkWithFiles: the transaction that writes
\* the UserData row, the SecureLink row and the CREATED audit entry
CreateSecureLink(l, validity) ==
    /\ l \notin created
    /\ l = Cardinality(created) + 1
    /\ created' = created \cup {l}
    /\ userData' = userData \cup {l}
    /\ secureLink' = secureLink @@
           (l :> [expiresAt |-> calculateExpiry(validity),
                  isUsed |-> FALSE, isRevoked |-> FALSE])
    /\ auditLog' = Append(auditLog, Audit("CREATED", l))
    /\ lastRead' = NoRead
    /\ UNCHANGED <<env, fns, limiter, cache, calls, st, ghost>>

\* payload rows left behind when the statements run outside a transaction
\* and statement k of the three throws
FailedCreateWritesPartial(l, k) == IF k >= 1 THEN {l} ELSE {}

\* payload rows left behind by a creation whose transaction throws at
\* statement k of the three: the transaction is rolled back
FailedCreateWrites(l, k) == {}

\* createSecureLink / createSecureLinkWithFiles returning success: false:
\* the input is rejected, or the transaction throws at statement k
CreateSecureLinkFails(l, k) ==
    /\ l \notin created
    /\ l = Cardinality(created) + 1
    /\ userData' = userData \cup FailedCreateWrites(l, k)
    /\ lastRead' = [op |-> "createSecureLink", success |-> FALSE]
    /\ UNCHANGED <<env, fns, limiter, secureLink, created, auditLog, cache, calls, st, ghost>>

\* one-time-code verification with the correct code: the link becomes used
\* and a session is created for the recipient when Redis answers
VerifyOTP(l, s, ttl, ok) ==
    /\ LinkExists(l)
    /\ ~secureLink[l].isRevoked
    /\ ~IsExpired(l)
    /\ ~secureLink[l].isUsed
    /\ secureLink' = [secureLink EXCEPT ![l].isUsed = TRUE]
    /\ IF ok THEN createSession(l, s, ttl) ELSE UNCHANGED cache
    /\ lastRead' = NoRead
    /\ UNCHANGED <<env, fns, limiter, userData, created, auditLog, calls, st, ghost>>

\* ------------------------------------------------------------------ reads
Cookies == SessionIds \cup {NoCookie}

GetUserData(t, c, ok1, ok2) ==
    /\ lastRead' = getUserData(t, c, ok1, ok2)
    /\ UNCHANGED <<env, fns, limiter, durable, cache, calls, st, ghost>>

GetFullUserData(t, c, ok1, ok2) ==
    /\ lastRead' = getFullUserData(t, c, ok1, ok2)
    /\ UNCHANGED <<env, fns, limiter, durable, cache, calls, st, ghost>>

StreamAdmit(t, c, ok1, ok2) ==
    /\ lastRead' = StreamAdmission(t, c, ok1, ok2)
    /\ UNCHANGED <<env, fns, limiter, durable, cache, calls, st, ghost>>

\* getLinkStatus(ownerToken)
getLinkStatus(l) ==
    IF ~LinkExists(l)
    THEN [op |-> "getLinkStatus", token |-> l, success |-> FALSE]
    ELSE [op |-> "getLinkStatus", token |-> l, success |-> TRUE,
          isUsed |-> secureLink[l].isUsed, isRevoked |-> secureLink[l].isRevoked,
          isExpired |-> IsExpired(l)]

GetLinkStatus(l) ==
    /\ lastRead' = getLinkStatus(l)
    /\ UNCHANGED <<env, fns, limiter, durable, cache, calls, st, ghost>>

\* getCleanupStats(): the three counts and the figures derived from them
getCleanupStats ==
    LET total == Cardinality(DOMAIN secureLink)
        expired == Cardinality({l \in DOMAIN secureLink : IsExpired(l)})
        revokedLinks == Cardinality({l \in DOMAIN secureLink : secureLink[l].isRevoked})
    IN  [op |-> "getCleanupStats",
         pendingCleanup |-> expired + revokedLinks,
         totalLinks |-> total,
         expiredLinks |-> expired,
         revokedLinks |-> revokedLinks,
         activeLinks |-> total - expired]

GetCleanupStats ==
    /\ lastRead' = getCleanupStats
    /\ UNCHANGED <<env, fns, limiter, durable, cache, calls, st, ghost>>

\* ------------------------------------------------------------ kill switch
\* a revokeAccess that lacks the already-revoked early return
RevokeFindUnchecked(c, l, del) ==
    /\ rv[c].pc = "idle"
    /\ rv' = [rv EXCEPT ![c] =
                IF ~LinkExists(l)
                THEN [IdleRevoke EXCEPT !.pc = "done", !.link = l, !.del = del,
                                        !.result = "invalid_token"]
                ELSE [IdleRevoke EXCEPT !.pc = "invalidate", !.link = l, !.del = del]]
    /\ lastRead' = NoRead
    /\ UNCHANGED <<env, fns, limiter, durable, cache, cl, cs, st, ghost>>

\* revokeAccess, first part: findUnique by owner token and the two early
\* returns
RevokeFind(c, l, del) ==
    /\ rv[c].pc = "idle"
    /\ rv' = [rv EXCEPT ![c] =
                IF ~LinkExists(l)
                THEN [IdleRevoke EXCEPT !.pc = "done", !.link = l, !.del = del,
                                        !.result = "invalid_token"]
                ELSE IF secureLink[l].isRevoked
                THEN [IdleRevoke EXCEPT !.pc = "done", !.link = l, !.del = del,
                                        !.result = "already_revoked"]
                ELSE [IdleRevoke EXCEPT !.pc = "invalidate", !.link = l, !.del = del]]
    /\ lastRead' = NoRead
    /\ UNCHANGED <<env, fns, limiter, durable, cache, cl, cs, st, ghost>>

\* tryInvalidateSession(secureLink.token): false when Redis is not
\* configured or the call throws
RevokeInvalidate(c, ok) ==
    /\ rv[c].pc = "invalidate"
    /\ IF ok THEN invalidateSession(rv[c].link, TRUE) ELSE UNCHANGED cache
    /\ rv' = [rv EXCEPT ![c].pc = "tx", ![c].invalidated = ok]
    /\ lastRead' = NoRead
    /\ UNCHANGED <<env, fns, limiter, durable, cl, cs, st, ghost>>

\* a revocation that flips the flag instead of setting it
RevokedRowToggled(row) == [row EXCEPT !.isRevoked = ~row.isRevoked]

\* the row written by tx.secureLink.update
RevokedRow(row) == [row EXCEPT !.isRevoked = TRUE]

\* a deletion that writes the REVOKED entry only
RevokeDeleteAuditSilent(l) == <<Audit("REVOKED", l)>>

\* the audit entries the transaction of revokeAccess writes before
\* tx.userData.delete when deleteDataImmediately is set
RevokeDeleteAudit(l) == <<Audit("REVOKED", l), Audit("DATA_DELETED", l)>>

\* the $transaction of revokeAccess; update throws when the row is gone and
\* the transaction rolls back
RevokeTx(c) ==
    LET l == rv[c].link IN
    /\ rv[c].pc = "tx"
    /\ IF ~LinkExists(l)
       THEN /\ rv' = [rv EXCEPT ![c].pc = "done", ![c].result = "failed"]
            /\ UNCHANGED <<durable, hist>>
       ELSE /\ rv' = [rv EXCEPT ![c].pc = "done", ![c].result = "ok"]
            /\ created' = created
            /\ hist' = [hist EXCEPT
                           !.revokeOk = @ \cup {l},
                           !.duringStream =
                               IF st.pc # "none" /\ ~st.closed /\ st.token = l /\ ~@.set
                               THEN [set |-> TRUE, at |-> now] ELSE @]
            /\ IF rv[c].del
               THEN /\ auditLog' = AuditSetNull(auditLog \o RevokeDeleteAudit(l), {l})
                    /\ UserDataDeleted({l})
               ELSE /\ auditLog' = Append(auditLog, Audit("REVOKED", l))
                    /\ secureLink' = [secureLink EXCEPT ![l] = RevokedRow(@)]
                    /\ userData' = userData
    /\ lastRead' = NoRead
    /\ UNCHANGED <<env, fns, limiter, cache, cl, cs, st, sessHist>>

\* the caller has received the RevokeAccessResult
RevokeReturn(c) ==
    /\ rv[c].pc = "done"
    /\ rv' = [rv EXCEPT ![c] = IdleRevoke]
    /\ lastRead' = NoRead
    /\ UNCHANGED <<env, fns, limiter, durable, cache, cl, cs, st, ghost>>

\* ---------------------------------------------------------------- cleanup
\* a findMany without its where clause
linksToCleanAll == DOMAIN secureLink

\* the findMany of cleanupExpiredData
linksToClean == {l \in DOMAIN secureLink : IsExpired(l) \/ secureLink[l].isRevoked}

CleanupSelect(r) ==
    /\ cl[r].pc = "idle"
    /\ cl' = [cl EXCEPT ![r] =
                 IF linksToClean = {}
                 THEN IdleCleanup
                 ELSE [IdleCleanup EXCEPT !.pc = "tx", !.ids = linksToClean]]
    /\ lastRead' = NoRead
    /\ UNCHANGED <<env, fns, limiter, durable, cache, rv, cs, st, ghost>>

\* the $transaction of cleanupExpiredData: createMany of the CLEANUP entries
\* (a foreign-key violation when a selected link is gone), deleteMany of the
\* links, deleteMany of the user data
CleanupTx(r) ==
    /\ cl[r].pc = "tx"
    /\ IF cl[r].ids \subseteq DOMAIN secureLink
       THEN /\ auditLog' = AuditSetNull(auditLog \o AuditRows("CLEANUP", cl[r].ids),
                                        cl[r].ids)
            /\ UserDataDeleted(cl[r].ids)
            /\ created' = created
            /\ hist' = [hist EXCEPT !.cleaned = @ \cup cl[r].ids]
            /\ cl' = [cl EXCEPT ![r] =
                         [IdleCleanup EXCEPT !.deletedLinks = Cardinality(cl[r].ids),
                                             !.deletedUsers = Cardinality(cl[r].ids)]]
       ELSE /\ cl' = [cl EXCEPT ![r] = [IdleCleanup EXCEPT !.success = FALSE]]
            /\ UNCHANGED <<durable, hist>>
    /\ lastRead' = NoRead
    /\ UNCHANGED <<env, fns, limiter, cache, rv, cs, st, sessHist>>

\* ----------------------------------------------------------------- stream
\* an event whose JSON carries the decrypted userData whatever its type
EventCarriesPayload(type, seconds) ==
    [type |-> type, remainingSeconds |-> seconds, userData |-> TRUE]

\* the JSON of an SSE event: only the data event has the userData field
Event(type, seconds) ==
    [type |-> type, remainingSeconds |-> seconds, userData |-> (type = "data")]

\* logSessionEnd(reason): the SESSION_ENDED entry, or nothing when the insert
\* throws because the link row is gone
logSessionEnd(log, l) ==
    IF LinkExists(l) THEN Append(log, Audit("SESSION_ENDED", l)) ELSE log

\* controller.enqueue(event); clearInterval; controller.close();
\* logSessionEnd.  enqueue throws on a closed controller; the catch block
\* then clears the interval and its own close throws.
Terminate(type) ==
    IF st.closed
    THEN /\ st' = [st EXCEPT !.pc = "idle", !.interval = FALSE]
         /\ UNCHANGED auditLog
    ELSE /\ st' = [st EXCEPT !.pc = "idle", !.interval = FALSE, !.closed = TRUE,
                             !.events = Append(@, Event(type, 0))]
         /\ auditLog' = logSessionEnd(auditLog, st.token)

\* GET /api/stream/[token]: admission, then start(controller) pushes the
\* data event and arms the heartbeat interval
StreamOpen(t, c, ok1, ok2) ==
    /\ st.pc = "none"
    /\ StreamAdmission(t, c, ok1, ok2).success
    /\ st' = [NoStream EXCEPT !.pc = "idle", !.token = t, !.sid = c,
                              !.events = <<Event("data", RemainingSeconds(t))>>,
                              !.interval = TRUE,
                              !.nextTick = now + HEARTBEAT_SECONDS]
    /\ lastRead' = NoRead
    /\ UNCHANGED <<env, fns, limiter, durable, cache, calls, ghost>>

\* the link is no longer served: revoked, past its expiry or deleted
DurablyInvalid(l) ==
    ~LinkExists(l) \/ secureLink[l].isRevoked \/ secureLink[l].expiresAt <= now

\* the interval timer fires and the callback issues its findUnique
HbStart ==
    /\ st.pc = "idle"
    /\ st.interval
    /\ now = st.nextTick
    /\ st' = [st EXCEPT !.pc = "hb_db", !.nextTick = @ + HEARTBEAT_SECONDS,
                        !.invalidAtTick = DurablyInvalid(st.token)]
    /\ lastRead' = NoRead
    /\ UNCHANGED <<env, fns, limiter, durable, cache, calls, ghost>>

\* if (!link || link.isRevoked), on a row that is missing only
HbLinkMissing(l) == ~LinkExists(l)

\* if (!link || link.isRevoked)
HbLinkDead(l) == ~LinkExists(l) \/ secureLink[l].isRevoked

\* the findUnique of the heartbeat answers
HbDbRead ==
    /\ st.pc = "hb_db"
    /\ IF HbLinkDead(st.token)
       THEN Terminate("revoked")
       ELSE /\ st' = [st EXCEPT !.pc = "hb_ttl",
                                !.dbRemainingSeconds = secureLink[st.token].expiresAt - now]
            /\ UNCHANGED auditLog
    /\ lastRead' = NoRead
    /\ UNCHANGED <<env, fns, limiter, secureLink, userData, created, cache, calls, ghost>>

\* tryGetSessionTTL(token, sessionId, fallback)
tryGetSessionTTL(t, s, fallback, ok) ==
    IF ok /\ getSessionTTL(t, s) > 0 THEN getSessionTTL(t, s) ELSE fallback

\* if (ttl <= 0 || dbRemainingSeconds <= 0), with the durable test strict
HbExpiredStrict(ttl, dbRemainingSeconds) == ttl <= 0 \/ dbRemainingSeconds < 0

\* if (ttl <= 0 || dbRemainingSeconds <= 0)
HbExpired(ttl, dbRemainingSeconds) == ttl <= 0 \/ dbRemainingSeconds <= 0

\* the session TTL answers: the expired event, or a heartbeat with the
\* smaller of the two countdowns
HbTtl(ok) ==
    LET ttl == tryGetSessionTTL(st.token, st.sid, st.dbRemainingSeconds, ok) IN
    /\ st.pc = "hb_ttl"
    /\ IF HbExpired(ttl, st.dbRemainingSeconds)
       THEN Terminate("expired")
       ELSE /\ st' = [st EXCEPT !.pc = "idle",
                         !.events = IF st.closed THEN @
                                    ELSE Append(@, Event("heartbeat",
                                                         Min(ttl, st.dbRemainingSeconds))),
                         !.interval = IF st.closed THEN FALSE ELSE @]
            /\ UNCHANGED auditLog
    /\ lastRead' = NoRead
    /\ UNCHANGED <<env, fns, limiter, secureLink, userData, created, cache, calls, ghost>>

\* the abort listener of request.signal: clearInterval, controller.close()
\* (which throws when the controller is closed already), logSessionEnd
Abort ==
    /\ st.pc # "none"
    /\ ~st.aborted
    /\ st' = [st EXCEPT !.aborted = TRUE, !.interval = FALSE, !.closed = TRUE]
    /\ auditLog' = IF st.closed THEN auditLog ELSE logSessionEnd(auditLog, st.token)
    /\ lastRead' = NoRead
    /\ UNCHANGED <<env, fns, limiter, secureLink, userData, created, cache, calls, ghost>>

\* ----------------------------------------------------------- rate limiter
\* the counter is capped so that denied calls cannot grow it without end
RlMaxCount == RlLimit + 2

\* a fallback that denies the request
FailClosed(limit) ==
    [allowed |-> FALSE, remaining |-> 0, retryAfter |-> NoRetry, failed |-> TRUE]

\* the fail-open result of checkRateLimit
FailOpen(limit) ==
    [allowed |-> TRUE, remaining |-> limit, retryAfter |-> NoRetry, failed |-> TRUE]

\* const allowed = current < limit
RateAllowedStrict(current, limit) == current < limit

\* const allowed = current <= limit
RateAllowed(current, limit) == current <= limit

\* the result checkRateLimit builds from the counter and the key's TTL
RateLimitResult(current, ttl, limit) ==
    [allowed |-> RateAllowed(current, limit),
     remaining |-> Max(0, limit - current),
     retryAfter |-> IF RateAllowed(current, limit) THEN NoRetry
                    ELSE [defined |-> TRUE, seconds |-> ttl],
     failed |-> FALSE]

\* redis.ttl(key): -2 without a key, -1 for a key without expiry
RedisTtl(key) == IF key.val = 0 THEN 0 - 2 ELSE IF key.ex = 0 THEN 0 - 1 ELSE key.ex - now

\* checkRateLimit: getRedis() and redis.incr(key)
RlIncr(p, ok) ==
    /\ rlCall[p].pc = "idle"
    /\ IF ok
       THEN /\ rlKey.val < RlMaxCount
            /\ rlKey' = [rlKey EXCEPT !.val = @ + 1]
            /\ rlHist' = [rlHist EXCEPT !.n = IF rlKey.val = 0 THEN 1 ELSE @ + 1,
                                        !.expires = IF rlKey.val = 0 THEN 0 ELSE @]
            /\ rlCall' = [rlCall EXCEPT ![p] =
                             [IdleLimit EXCEPT
                                 !.pc = IF rlKey.val + 1 = 1 THEN "expire" ELSE "ttl",
                                 !.current = rlKey.val + 1,
                                 !.at = now,
                                 !.nth = IF rlKey.val = 0 THEN 1 ELSE rlHist.n + 1]]
       ELSE /\ rlCall' = [rlCall EXCEPT ![p] =
                             [IdleLimit EXCEPT !.pc = "done", !.result = FailOpen(RlLimit)]]
            /\ UNCHANGED <<rlKey, rlHist>>
    /\ lastRead' = NoRead
    /\ UNCHANGED <<env, fns, durable, cache, calls, st, ghost>>

\* checkRateLimit: if (current === 1) redis.expire(key, windowSeconds)
RlExpire(p, ok) ==
    /\ rlCall[p].pc = "expire"
    /\ IF ok
       THEN /\ rlKey' = IF rlKey.val = 0 THEN rlKey
                        ELSE [rlKey EXCEPT !.ex = now + RlWindow]
            /\ rlHist' = [rlHist EXCEPT !.expires = @ + 1]
            /\ rlCall' = [rlCall EXCEPT ![p].pc = "ttl"]
       ELSE /\ rlCall' = [rlCall EXCEPT ![p].pc = "done",
                                        ![p].result = FailOpen(RlLimit)]
            /\ UNCHANGED <<rlKey, rlHist>>
    /\ lastRead' = NoRead
    /\ UNCHANGED <<env, fns, durable, cache, calls, st, ghost>>

\* the calls allowed with the cache answering that began and ended within
\* one second, counted per second
AllowedAt(t) == IF t \in DOMAIN rlHist.allowedAt THEN rlHist.allowedAt[t] ELSE 0

\* checkRateLimit: redis.ttl(key) and the result
RlTtl(p, ok) ==
    LET result == IF ok THEN RateLimitResult(rlCall[p].current, RedisTtl(rlKey), RlLimit)
                  ELSE FailOpen(RlLimit) IN
    /\ rlCall[p].pc = "ttl"
    /\ rlCall' = [rlCall EXCEPT ![p].pc = "done", ![p].result = result]
    /\ rlHist' = IF ok /\ result.allowed /\ rlCall[p].at = now
                 THEN [rlHist EXCEPT !.allowedAt =
                          [t \in (DOMAIN @) \cup {now} |->
                              IF t = now THEN AllowedAt(now) + 1 ELSE @[t]]]
                 ELSE rlHist
    /\ lastRead' = NoRead
    /\ UNCHANGED <<env, fns, durable, cache, calls, st, ghost, rlKey>>

\* the caller has its result
RlReturn(p) ==
    /\ rlCall[p].pc = "done"
    /\ rlCall' = [rlCall EXCEPT ![p] = IdleLimit]
    /\ lastRead' = NoRead
    /\ UNCHANGED <<env, fns, durable, cache, calls, st, ghost, rlKey, rlHist>>

\* ---------------------------------------------------------- session store
\* a completed createSession call
CreateSession(t, s, ttl) ==
    /\ redisConfigured
    /\ createSession(t, s, ttl)
    /\ sessHist' = [sessHist EXCEPT ![t].last = s, ![t].at = now, ![t].ttl = ttl,
                                    ![t].prev = sessHist[t].last]
    /\ lastRead' = NoRead
    /\ UNCHANGED <<env, fns, limiter, durable, calls, st, hist>>

\* a completed validateSession call and its return value
ValidateSession(t, s) ==
    /\ redisConfigured
    /\ lastRead' = [op |-> "validateSession", token |-> t, sid |-> s,
                    result |-> validateSession(t, s)]
    /\ UNCHANGED <<env, fns, limiter, durable, cache, calls, st, ghost>>

\* a completed invalidateSession(token, true) call, as tryInvalidateSession
\* makes it
InvalidateSession(t) ==
    /\ redisConfigured
    /\ invalidateSession(t, TRUE)
    /\ sessHist' = [sessHist EXCEPT ![t].marked = TRUE, ![t].markedAt = now]
    /\ lastRead' = NoRead
    /\ UNCHANGED <<env, fns, limiter, durable, calls, st, hist>>

\* ---------------------------------------------------------- specifications
Validities == 1..MaxValidity
Ttls == 1..MaxTtl

\* the durable lifecycle and the read paths of one link
NextRead ==
    \/ Tick(MaxTime)
    \/ \E v \in Validities : CreateSecureLink(1, v)
    \/ \E ttl \in Ttls, ok \in CallOutcomes : VerifyOTP(1, "s1", ttl, ok)
    \/ \E c \in Cookies, ok1 \in CallOutcomes, ok2 \in CallOutcomes :
          GetUserData(1, c, ok1, ok2)
    \/ \E c \in Cookies, ok1 \in CallOutcomes, ok2 \in CallOutcomes :
          GetFullUserData(1, c, ok1, ok2)
    \/ \E c \in Cookies, ok1 \in CallOutcomes, ok2 \in CallOutcomes :
          StreamAdmit(1, c, ok1, ok2)
    \/ GetLinkStatus(1)
    \/ \E del \in BOOLEAN : RevokeFind("o1", 1, del)
    \/ \E ok \in CallOutcomes : RevokeInvalidate("o1", ok)
    \/ RevokeTx("o1")
    \/ RevokeReturn("o1")
    \/ CleanupSelect("c1")
    \/ CleanupTx("c1")

SpecRead == Init /\ [][NextRead]_vars

\* the durable lifecycle of a link with concurrent owner requests
Next ==
    \/ Tick(MaxTime)
    \/ \E v \in Validities : CreateSecureLink(1, v)
    \/ \E ttl \in Ttls, ok \in CallOutcomes : VerifyOTP(1, "s1", ttl, ok)
    \/ \E c \in Owners, del \in BOOLEAN : RevokeFind(c, 1, del)
    \/ \E c \in Owners, ok \in CallOutcomes : RevokeInvalidate(c, ok)
    \/ \E c \in Owners : RevokeTx(c)
    \/ \E c \in Owners : RevokeReturn(c)
    \/ CleanupSelect("c1")
    \/ CleanupTx("c1")

Spec == Init /\ [][Next]_vars

\* one link, its owner, cleanup and one streaming connection whose client
\* may disconnect while the stream is open; the timer, the store calls and
\* the clock make progress
NextStream ==
    \/ Tick(StreamMaxTime)
    \/ /\ now + StreamValidity + HEARTBEAT_SECONDS <= StreamMaxTime
       /\ CreateSecureLink(1, StreamValidity)
    \/ \E ttl \in {MaxTtl, StreamTtl}, ok \in CallOutcomes : VerifyOTP(1, "s1", ttl, ok)
    \/ \E ok1 \in CallOutcomes, ok2 \in CallOutcomes : StreamOpen(1, "s1", ok1, ok2)
    \/ HbStart
    \/ HbDbRead
    \/ \E ok \in CallOutcomes : HbTtl(ok)
    \/ ~st.closed /\ Abort
    \/ \E del \in BOOLEAN : RevokeFind("o1", 1, del)
    \/ \E ok \in CallOutcomes : RevokeInvalidate("o1", ok)
    \/ RevokeTx("o1")
    \/ RevokeReturn("o1")
    \/ CleanupSelect("c1")
    \/ CleanupTx("c1")

SpecStream ==
    /\ Init
    /\ [][NextStream]_vars
    /\ WF_vars(Tick(StreamMaxTime))
    /\ WF_vars(HbStart)
    /\ WF_vars(HbDbRead)
    /\ WF_vars(\E ok \in CallOutcomes : HbTtl(ok))

\* the streaming connection with an owner who revokes without immediate
\* deletion, so that links are deleted by cleanup only
NextStreamLive ==
    \/ Tick(StreamMaxTime)
    \/ /\ now + StreamValidity + HEARTBEAT_SECONDS <= StreamMaxTime
       /\ CreateSecureLink(1, StreamValidity)
    \/ \E ttl \in {MaxTtl, StreamTtl}, ok \in CallOutcomes : VerifyOTP(1, "s1", ttl, ok)
    \/ \E ok1 \in CallOutcomes, ok2 \in CallOutcomes : StreamOpen(1, "s1", ok1, ok2)
    \/ HbStart
    \/ HbDbRead
    \/ \E ok \in CallOutcomes : HbTtl(ok)
    \/ ~st.closed /\ Abort
    \/ RevokeFind("o1", 1, FALSE)
    \/ \E ok \in CallOutcomes : RevokeInvalidate("o1", ok)
    \/ RevokeTx("o1")
    \/ RevokeReturn("o1")
    \/ CleanupSelect("c1")
    \/ CleanupTx("c1")

SpecStreamLive ==
    /\ Init
    /\ [][NextStreamLive]_vars
    /\ WF_vars(Tick(StreamMaxTime))
    /\ WF_vars(HbStart)
    /\ WF_vars(HbDbRead)
    /\ WF_vars(\E ok \in CallOutcomes : HbTtl(ok))

\* two links, their owner and two concurrent cleanup runs; the owner's cache
\* call falls back, the cache plays no part in cleanup
NextCleanup ==
    \/ Tick(MaxTime)
    \/ \E l \in LinkIds, v \in Validities : CreateSecureLink(l, v)
    \/ \E l \in LinkIds, k \in 0..2 : CreateSecureLinkFails(l, k)
    \/ \E l \in LinkIds, del \in BOOLEAN : RevokeFind("o1", l, del)
    \/ RevokeInvalidate("o1", FALSE)
    \/ RevokeTx("o1")
    \/ RevokeReturn("o1")
    \/ \E r \in Runners : CleanupSelect(r)
    \/ \E r \in Runners : CleanupTx(r)

SpecCleanup == Init /\ [][NextCleanup]_vars

\* one rate-limit key and two concurrent callers
NextRate ==
    \/ Tick(MaxTime)
    \/ \E p \in Callers, ok \in CallOutcomes : RlIncr(p, ok)
    \/ \E p \in Callers, ok \in CallOutcomes : RlExpire(p, ok)
    \/ \E p \in Callers, ok \in CallOutcomes : RlTtl(p, ok)
    \/ \E p \in Callers : RlReturn(p)

SpecRate == Init /\ [][NextRate]_vars

\* the session store of one token
NextSession ==
    \/ Tick(MaxTime)
    \/ \E s \in SessionIds, ttl \in Ttls : CreateSession(1, s, ttl)
    \/ \E s \in SessionIds : ValidateSession(1, s)
    \/ InvalidateSession(1)

SpecSession == Init /\ [][NextSession]_vars

\* ------------------------------------------------------------- read claims
ReadOps == {"getUserData", "getFullUserData", "stream"}

\* the link is revoked or past its expiry in the durable store
DurablyRevoked(l) == LinkExists(l) /\ secureLink[l].isRevoked
DurablyExpired(l) == LinkExists(l) /\ secureLink[l].expiresAt <= now

\* C1: a link whose durable isRevoked flag is true or whose expiresAt <= now
\* is rejected by getUserData, getFullUserData and the stream admission,
\* whatever isUsed, the cookie and the cache hold
C1_RevokedOrExpiredRejected ==
    (/\ lastRead.op \in ReadOps
     /\ DurablyRevoked(lastRead.token) \/ DurablyExpired(lastRead.token))
    => ~lastRead.success

\* C2: a read path grants access only if the link is not revoked, not
\* expired, used, and the cache is unavailable or confirms the presented
\* session identifier
C2_GrantNeedsDurableAndSession ==
    (lastRead.op \in ReadOps /\ lastRead.success)
    => /\ LinkExists(lastRead.token)
       /\ ~DurablyRevoked(lastRead.token)
       /\ ~DurablyExpired(lastRead.token)
       /\ secureLink[lastRead.token].isUsed
       /\ \/ lastRead.revokedInRedis = "null"
          \/ lastRead.isValid = "null"
          \/ (lastRead.sid \in SessionIds /\ lastRead.isValid = "true")

\* C3: after revokeAccess has returned success for a link, getUserData with
\* its token fails with errorType REVOKED until cleanup removes the link
C3_RevokedErrorAfterRevoke ==
    (/\ lastRead.op = "getUserData"
     /\ lastRead.token \in hist.revokeOk
     /\ lastRead.token \notin hist.cleaned)
    => (~lastRead.success /\ lastRead.error = "REVOKED")

\* -------------------------------------------------------- lifecycle claims
\* number of audit entries with this action and link reference
AuditCount(log, action, ref) ==
    Cardinality({i \in 1..Len(log) : log[i].action = action /\ log[i].linkId = ref})

\* C5: once a link's isRevoked is true it stays true for as long as the row
\* exists, and a deleted link never comes back
C5_RevokedIsMonotonic ==
    [][\A l \in LinkIds :
          /\ DurablyRevoked(l) /\ l \in DOMAIN secureLink' => secureLink'[l].isRevoked
          /\ l \in created /\ ~LinkExists(l) => l \notin DOMAIN secureLink']_vars

C5_Witness ==
    /\ DurablyRevoked(1)
    /\ hist.revokeOk = {1}
    /\ cl["c1"].pc = "tx"
    /\ \E c \in Owners : rv[c].pc = "tx"

\* C8: revokeAccess for a link that is already revoked returns success=false
\* in its first step and writes nothing: no audit entry, no payload deletion,
\* no change of the link, no cache access
C8_AlreadyRevokedChangesNothing ==
    [][\A c \in Owners :
          (/\ rv[c].pc = "idle"
           /\ rv'[c].pc # "idle"
           /\ DurablyRevoked(rv'[c].link))
          => /\ rv'[c].pc = "done"
             /\ rv'[c].result = "already_revoked"
             /\ UNCHANGED <<durable, cache>>]_vars

C8_Witness ==
    \E c \in Owners :
        /\ rv[c].pc = "done"
        /\ rv[c].result = "already_revoked"
        /\ DurablyRevoked(rv[c].link)
        /\ AuditCount(auditLog, "REVOKED", rv[c].link) = 1

\* C9: a revokeAccess call that returns success leaves the link with
\* isRevoked true and exactly one new REVOKED audit entry for it; when the
\* cache call succeeded, no active session and the revoked marker; with
\* deleteDataImmediately also one new DATA_DELETED entry and no payload
C9_RevokePostState ==
    [][\A c \in Owners :
          (rv[c].pc = "tx" /\ rv'[c].pc = "done" /\ rv'[c].result = "ok")
          => LET l == rv[c].link IN
             /\ l \in DOMAIN secureLink'
             /\ secureLink'[l].isRevoked
             /\ AuditCount(auditLog', "REVOKED", l) = AuditCount(auditLog, "REVOKED", l) + 1
             /\ rv[c].invalidated =>
                   (revoked'[l] > now' /\ ~(active'[l].ex > now'))
             /\ rv[c].del =>
                   /\ AuditCount(auditLog', "DATA_DELETED", l)
                          = AuditCount(auditLog, "DATA_DELETED", l) + 1
                   /\ l \notin userData']_vars

\* ---------------------------------------------------------- session claims
\* C6: after createSession(token, s1) and then createSession(token, s2) with
\* s2 # s1, validateSession(token, s1) is false, and validateSession(token,
\* s2) is true while s2 has not expired and the token is not revoked
C6_SecondSessionReplacesFirst ==
    lastRead.op = "validateSession" =>
        LET h == sessHist[lastRead.token] IN
        (h.prev # Nil /\ h.prev # h.last) =>
            /\ lastRead.sid = h.prev => ~lastRead.result
            /\ (/\ lastRead.sid = h.last
                /\ now < h.at + h.ttl
                /\ ~isTokenRevoked(lastRead.token)) => lastRead.result

C6_Witness ==
    /\ lastRead.op = "validateSession"
    /\ sessHist[1].prev = "s1"
    /\ sessHist[1].last = "s2"
    /\ lastRead.sid = "s1"
    /\ ~lastRead.result
    /\ validateSession(1, "s2")

\* C7: from the moment invalidateSession(token, true) has set the revoked
\* marker and for its 24 hours, the marker is still there and validateSession
\* is false for every session identifier, sessions created later included
C7_MarkerBlocksValidation ==
    \A t \in LinkIds :
        (sessHist[t].marked /\ now < sessHist[t].markedAt + REVOKED_TTL) =>
            /\ isTokenRevoked(t)
            /\ (lastRead.op = "validateSession" /\ lastRead.token = t) => ~lastRead.result

C7_Witness ==
    /\ sessHist[1].marked
    /\ sessHist[1].last = "s2"
    /\ sessHist[1].at > sessHist[1].markedAt
    /\ GetActive(1) = "s2"
    /\ KeyExists(session[1]["s2"])
    /\ lastRead.op = "validateSession"
    /\ lastRead.sid = "s2"
    /\ ~lastRead.result

\* ------------------------------------------------------------ stream claims
LastEvent == st.events[Len(st.events)]

\* C4: when revokeAccess commits while a stream is open, the heartbeat that
\* reads the link after the commit emits the terminal revoked event and
\* closes the stream; an open stream never outlives the commit by more than
\* one heartbeat interval; nothing is emitted on a closed stream.
C4_RevokeClosesStreamAtNextTick ==
    [][/\ (st.pc = "hb_db" /\ st'.pc # "hb_db" /\ hist.duringStream.set /\ ~st.closed)
            => /\ st'.closed
               /\ ~st'.interval
               /\ st'.events = Append(st.events, Event("revoked", 0))
       /\ (hist'.duringStream.set /\ ~st'.closed)
            => now' <= hist'.duringStream.at + HEARTBEAT_SECONDS
       /\ st.closed => st'.events = st.events]_vars

C4_Witness ==
    /\ hist.duringStream.set
    /\ st.closed
    /\ ~st.aborted
    /\ Len(st.events) = 3
    /\ st.events[2].type = "heartbeat"
    /\ LastEvent.type = "revoked"
    /\ now = hist.duringStream.at + HEARTBEAT_SECONDS

\* C10: every admitted stream is eventually closed; a heartbeat that starts
\* when the link is revoked, expired or deleted ends with the stream closed,
\* a client abort closes it, an open stream always has its next heartbeat
\* at most one interval away, and a closed stream stays closed, silent and
\* starts no further heartbeat.
C10_StreamEventuallyClosed ==
    /\ (st.pc # "none") ~> st.closed
    /\ [][/\ (st.pc \in {"hb_db", "hb_ttl"} /\ st'.pc = "idle" /\ st.invalidAtTick)
               => (st'.closed /\ ~st'.interval)
          /\ (~st.aborted /\ st'.aborted) => (st'.closed /\ ~st'.interval)
          /\ (st'.pc # "none" /\ ~st'.closed)
               => /\ st'.interval
                  /\ now' <= st'.nextTick
                  /\ st'.nextTick <= now' + HEARTBEAT_SECONDS
          /\ st.closed
               => /\ st'.closed
                  /\ st'.events = st.events
                  /\ (st.pc # "idle" \/ st'.pc = "idle")]_vars

C10_Witness ==
    /\ st.closed
    /\ ~st.aborted
    /\ st.invalidAtTick
    /\ ~hist.duringStream.set
    /\ Len(st.events) = 3
    /\ st.events[2].type = "heartbeat"
    /\ LastEvent.type = "expired"

\* C11: an admitted stream has exactly one data event, it is the first event
\* and carries the payload; no later event carries payload fields.
C11_OneDataEventFirst ==
    st.pc # "none" =>
        /\ Len(st.events) >= 1
        /\ st.events[1].type = "data"
        /\ st.events[1].userData
        /\ \A i \in 2..Len(st.events) :
               st.events[i].type # "data" /\ ~st.events[i].userData

C11_Witness ==
    /\ st.pc = "idle"
    /\ ~st.closed
    /\ Len(st.events) = 2
    /\ st.events[1].type = "data"
    /\ st.events[2].type = "heartbeat"

\* C12: with the cache configured, a heartbeat that completes while the
\* session presented at open is no longer the valid active session of the
\* token closes the stream.
C12_HeartbeatRevalidatesSession ==
    [][(/\ st.pc = "hb_ttl"
        /\ st'.pc = "idle"
        /\ redisConfigured
        /\ ~st.closed
        /\ ~validateSession(st.token, st.sid))
       => st'.closed]_vars

\* the request presented a session id and both cache calls yielded unknown
CacheUnknown ==
    /\ lastRead.op \in ReadOps
    /\ lastRead.sid \in SessionIds
    /\ lastRead.revokedInRedis = "null"
    /\ lastRead.isValid = "null"

\* C13: when the cache calls of a read yield unknown, the read is granted
\* exactly when the link exists with its payload, is used, is not revoked
\* and is not expired (expiresAt <= now), and never fails otherwise.
C13_DurableOnlyDecision ==
    CacheUnknown =>
        (lastRead.success <=>
            /\ LinkExists(lastRead.token)
            /\ lastRead.token \in userData
            /\ secureLink[lastRead.token].isUsed
            /\ ~DurablyRevoked(lastRead.token)
            /\ ~DurablyExpired(lastRead.token))

\* ----------------------------------------------------------- cleanup claims
\* the links a findMany of cleanupExpiredData would select in the next state
linksToCleanNext ==
    {l \in DOMAIN secureLink' :
        secureLink'[l].expiresAt < now' \/ secureLink'[l].isRevoked}

\* C14: a cleanup run whose transaction commits with nothing created, revoked
\* or expired since its selection leaves nothing to select, and a run that
\* starts with nothing to select returns zero deleted links and zero deleted
\* payloads and writes nothing.
C14_SecondCleanupDeletesNothing ==
    [][\A r \in Runners :
          /\ (/\ cl[r].pc = "tx"
              /\ cl'[r].pc = "idle"
              /\ cl'[r].success
              /\ cl[r].ids = linksToClean)
             => linksToCleanNext = {}
          /\ (/\ cl[r].pc = "idle"
              /\ cl'[r] # cl[r]
              /\ linksToClean = {})
             => /\ cl'[r] = IdleCleanup
                /\ UNCHANGED durable]_vars

C14_Witness ==
    /\ hist.cleaned = {1}
    /\ created = {1}
    /\ linksToClean = {}
    /\ \A r \in Runners : cl[r] = IdleCleanup
    /\ AuditCount(auditLog, "CLEANUP", NULL) = 1

\* C15: a cleanup run whose selected links were removed, if at all, only by
\* another cleanup run returns success; a committed run deletes links no
\* earlier run deleted and writes one CLEANUP entry per link it deletes.
C15_ConcurrentCleanupSafe ==
    [][\A r \in Runners :
          (/\ cl[r].pc = "tx"
           /\ cl'[r].pc = "idle"
           /\ (cl[r].ids \ DOMAIN secureLink) \subseteq hist.cleaned)
          => /\ cl'[r].success
             /\ cl[r].ids \cap hist.cleaned = {}
             /\ AuditCount(auditLog', "CLEANUP", NULL)
                  = AuditCount(auditLog, "CLEANUP", NULL) + Cardinality(cl[r].ids)]_vars

\* C16: the transaction of a cleanup run deletes exactly the links its
\* findMany selected, which are the links past their expiry (expiresAt < now)
\* or revoked, with their payloads, and appends one CLEANUP entry per link;
\* every other link and payload is unchanged; a failed transaction changes
\* nothing.
C16_CleanupDeletesExactlySelected ==
    [][\A r \in Runners :
          /\ (cl[r].pc = "idle" /\ cl'[r].pc = "tx")
             => cl'[r].ids = {l \in DOMAIN secureLink :
                                IsExpired(l) \/ DurablyRevoked(l)}
          /\ (cl[r].pc = "tx" /\ cl'[r].pc = "idle" /\ cl'[r].success)
             => /\ \A l \in cl[r].ids : IsExpired(l) \/ DurablyRevoked(l)
                /\ DOMAIN secureLink' = (DOMAIN secureLink) \ cl[r].ids
                /\ userData' = userData \ cl[r].ids
                /\ \A l \in DOMAIN secureLink' : secureLink'[l] = secureLink[l]
                /\ Len(auditLog') = Len(auditLog) + Cardinality(cl[r].ids)
                /\ cl'[r].deletedLinks = Cardinality(cl[r].ids)
                /\ cl'[r].deletedUsers = Cardinality(cl[r].ids)
          /\ (cl[r].pc = "tx" /\ cl'[r].pc = "idle" /\ ~cl'[r].success)
             => UNCHANGED durable]_vars

C16_Witness ==
    /\ hist.cleaned = {1}
    /\ \E r \in Runners : cl[r].pc = "idle" /\ cl[r].deletedLinks = 1
    /\ LinkExists(2)
    /\ 2 \in userData
    /\ ~IsExpired(2)
    /\ ~DurablyRevoked(2)

\* ------------------------------------------------------------- audit claims
\* C17: no step removes or rewrites an audit entry other than clearing its
\* link reference, and in every state each entry's reference is null or the
\* id of an existing link.
C17_AuditRefsNullOrLive ==
    /\ [](\A i \in 1..Len(auditLog) :
            auditLog[i].linkId = NULL \/ LinkExists(auditLog[i].linkId))
    /\ [][/\ Len(auditLog') >= Len(auditLog)
          /\ \A i \in 1..Len(auditLog) :
                /\ auditLog'[i].action = auditLog[i].action
                /\ auditLog'[i].linkId \in {auditLog[i].linkId, NULL}]_vars

C17_Witness ==
    /\ ~LinkExists(1)
    /\ Len(auditLog) >= 3
    /\ \E i \in 1..Len(auditLog) : auditLog[i].action = "SESSION_ENDED"
    /\ \E i \in 1..Len(auditLog) : auditLog[i].action = "CLEANUP"
    /\ \A i \in 1..Len(auditLog) : auditLog[i].linkId = NULL

\* C18: a link exists only with its payload and one CREATED entry naming it;
\* the step that creates a link creates its payload and that entry with it;
\* a creation that fails changes nothing in the durable store.
C18_CreationIsAtomic ==
    /\ [](\A l \in DOMAIN secureLink :
            l \in userData /\ AuditCount(auditLog, "CREATED", l) = 1)
    /\ [][/\ \A l \in LinkIds :
                (~LinkExists(l) /\ l \in DOMAIN secureLink')
                => /\ l \notin userData
                   /\ l \in userData'
                   /\ Len(auditLog') = Len(auditLog) + 1
          /\ (lastRead'.op = "createSecureLink" /\ ~lastRead'.success)
                => UNCHANGED durable]_vars

C18_Witness ==
    /\ lastRead.op = "createSecureLink"
    /\ ~lastRead.success
    /\ created = {1}
    /\ LinkExists(1)
    /\ 1 \in userData
    /\ AuditCount(auditLog, "CREATED", 1) = 1

\* ------------------------------------------------------ rate-limit claims
\* C19: a checkRateLimit call that the cache answered and that was the n-th
\* increment since the counter was created returns allowed = (n <= limit),
\* remaining = max(0, limit - n) and a retryAfter exactly when it is denied;
\* every such call increments the counter, denied or not; the key's expiry
\* is written only by the call that made the first increment.
C19_NthCallResult ==
    /\ [](\A p \in Callers :
            (rlCall[p].pc = "done" /\ ~rlCall[p].result.failed)
            => /\ rlCall[p].result.allowed = (rlCall[p].nth <= RlLimit)
               /\ rlCall[p].result.remaining = Max(0, RlLimit - rlCall[p].nth)
               /\ rlCall[p].result.retryAfter.defined = ~rlCall[p].result.allowed)
    /\ [][\A p \in Callers :
             /\ (rlCall[p].pc = "idle" /\ rlCall'[p].pc \in {"expire", "ttl"})
                => /\ rlKey'.val = rlKey.val + 1
                   /\ rlCall'[p].current = rlKey'.val
                   /\ rlCall'[p].nth = rlKey'.val
             /\ (rlCall[p].pc = "expire" /\ rlCall'[p].pc = "ttl")
                => rlCall[p].nth = 1
             /\ (rlKey'.val > 0 /\ rlKey'.ex # rlKey.ex)
                => \E q \in Callers : rlCall[q].pc = "expire" /\ rlCall'[q].pc = "ttl"]_vars

C19_Witness ==
    \E p \in Callers :
        /\ rlCall[p].pc = "done"
        /\ ~rlCall[p].result.failed
        /\ ~rlCall[p].result.allowed
        /\ rlCall[p].nth = RlLimit + 1
        /\ rlCall[p].result.remaining = 0
        /\ rlCall[p].result.retryAfter.defined
        /\ rlCall[p].result.retryAfter.seconds > 0

RECURSIVE AllowedBetween(_, _)
\* the number of allowed calls in the seconds from..to
AllowedBetween(from, to) ==
    IF from > to THEN 0 ELSE AllowedAt(from) + AllowedBetween(from + 1, to)

\* C20: in every interval of RlWindow seconds at most RlLimit calls that the
\* cache answered, and that ran wholly within one second of the interval,
\* are allowed.
C20_SlidingWindowLimit ==
    \A t \in 0..MaxTime : AllowedBetween(t, t + RlWindow - 1) <= RlLimit

\* ------------------------------------------------------------ maskPhone
\* strings are sequences of one-character strings
Digits == {"0", "1", "2", "3", "4", "5", "6", "7", "8", "9"}
Stars == <<"*", "*", "*", "*">>

\* phone.replace(/[^\d+]/g, '')
Cleaned(ph) == SelectSeq(ph, LAMBDA ch : ch \in Digits \cup {"+"})

\* s.slice(-4)
LastFour(s) == SubSeq(s, Max(1, Len(s) - 3), Len(s))

\* length of the match of /^\+(\d{1,3})/ on c, 0 when there is none; the
\* quantifier is greedy
CountryCodeLen(c) ==
    IF Len(c) >= 2 /\ c[1] = "+" /\ c[2] \in Digits
    THEN IF Len(c) >= 3 /\ c[3] \in Digits
         THEN IF Len(c) >= 4 /\ c[4] \in Digits THEN 4 ELSE 3
         ELSE 2
    ELSE 0

maskPhone(ph) ==
    LET cleaned == Cleaned(ph)
        n == CountryCodeLen(cleaned)
    IN  IF Len(cleaned) < 4 THEN Stars
        ELSE IF n > 0
        THEN SubSeq(cleaned, 1, n) \o <<" ">> \o Stars
               \o LastFour(SubSeq(cleaned, n + 1, Len(cleaned)))
        ELSE Stars \o LastFour(cleaned)

\* the example of maskPhone's doc comment
ExamplePhone == <<"+", "9", "1", "9", "8", "7", "6", "5", "4", "3", "2", "1", "0">>
RECURSIVE SeqsUpTo(_, _)
SeqsUpTo(S, n) ==
    IF n = 0 THEN {<<>>}
    ELSE LET shorter == SeqsUpTo(S, n - 1)
         IN  shorter \cup {Append(q, ch) : q \in shorter, ch \in S}
PhoneInputs == SeqsUpTo({"+", "1", "2", "-"}, MaxPhoneLen) \cup {ExamplePhone}

MaskPhone ==
    /\ masked = <<>>
    /\ masked' = maskPhone(phone)
    /\ UNCHANGED <<phone, box, env, durable, cache, calls, st, lastRead, ghost, limiter>>

InitMask == InitStores /\ box = NoBox /\ phone \in PhoneInputs /\ masked = <<>>
NextMask == MaskPhone
SpecMask == InitMask /\ [][NextMask]_vars

\* C21: a checkRateLimit call that finds the cache unconfigured, or whose
\* incr, expire or ttl throws, returns allowed = true with the full limit as
\* remaining and no retryAfter; a call is denied only when all its cache
\* calls answered and its increment exceeded the limit.
C21_RateLimiterFailsOpen ==
    \A p \in Callers :
        rlCall[p].pc = "done" =>
            /\ (rlCall[p].result.failed \/ ~redisConfigured)
               => /\ rlCall[p].result.allowed
                  /\ rlCall[p].result.remaining = RlLimit
                  /\ ~rlCall[p].result.retryAfter.defined
            /\ ~rlCall[p].result.allowed
               => /\ redisConfigured
                  /\ ~rlCall[p].result.failed
                  /\ rlCall[p].current > RlLimit

C21_Witness ==
    /\ redisConfigured
    /\ \E p \in Callers :
          /\ rlCall[p].pc = "done"
          /\ rlCall[p].result.failed
          /\ rlCall[p].current > RlLimit
          /\ rlCall[p].result.allowed
          /\ rlCall[p].result.remaining = RlLimit

\* C22: getUserData answers SESSION_INVALID only while the durable record is
\* still valid: the link exists with its payload, is used, is not revoked and
\* is not expired; for a durably revoked or expired link the reason is
\* REVOKED or EXPIRED.
C22_SessionInvalidOnlyWhenDurablyValid ==
    (lastRead.op = "getUserData" /\ lastRead.error = "SESSION_INVALID")
    => /\ LinkExists(lastRead.token)
       /\ lastRead.token \in userData
       /\ secureLink[lastRead.token].isUsed
       /\ ~secureLink[lastRead.token].isRevoked
       /\ ~IsExpired(lastRead.token)

\* the digits of a string, in order
DigitsOf(s) == SelectSeq(s, LAMBDA ch : ch \in Digits)

\* C23: for a phone with a leading plus and a country code maskPhone keeps
\* the country-code prefix and the trailing four digits and masks the rest:
\* maskPhone("+919876543210") = "+91 ****3210"; the digits after the stars
\* are at most the last four of the input.
C23_MaskPhoneCountryCode ==
    (masked # <<>> /\ Len(phone) >= 2 /\ phone[1] = "+" /\ phone[2] \in Digits)
    => /\ phone = ExamplePhone
          => masked = <<"+", "9", "1", " ", "*", "*", "*", "*", "3", "2", "1", "0">>
       /\ Len(Cleaned(phone)) >= 4
          => \E k \in 2..Len(masked) :
                /\ SubSeq(masked, 1, k - 1) = SubSeq(Cleaned(phone), 1, k - 1)
                /\ SubSeq(masked, k, k + 4) = <<" ">> \o Stars
                /\ Len(masked) - (k + 4) <= 4

\* C24: for a phone with fewer than four digits in total, with or without a
\* plus, maskPhone returns "****" and shows no digit.
C24_ShortPhoneFullyMasked ==
    (masked # <<>> /\ Len(DigitsOf(phone)) < 4)
    => /\ masked = Stars
       /\ DigitsOf(masked) = <<>>

\* ------------------------------------------------------------- crypto.ts
\* A Buffer is a sequence of bytes 0..255 and a string a sequence of
\* one-character strings.  AES-256-GCM itself is the library's: its keystream
\* is an arbitrary keyed function of the IV and the position, and the
\* authentication of decipher.final() is ideal, it accepts exactly the
\* (iv, ciphertext, tag) that the cipher produced under the key.

\* the printable ASCII characters, code 32 (space) to 126; the grave accent
\* (96) is spelled out
Ascii == <<
    " ", "!", "\"", "#", "$", "%", "&", "'", "(", ")", "*", "+",
    ",", "-", ".", "/", "0", "1", "2", "3", "4", "5", "6", "7",
    "8", "9", ":", ";", "<", "=", ">", "?", "@", "A", "B", "C",
    "D", "E", "F", "G", "H", "I", "J", "K", "L", "M", "N", "O",
    "P", "Q", "R", "S", "T", "U", "V", "W", "X", "Y", "Z", "[",
    "\\", "]", "^", "_", "grave", "a", "b", "c", "d", "e", "f", "g",
    "h", "i", "j", "k", "l", "m", "n", "o", "p", "q", "r", "s",
    "t", "u", "v", "w", "x", "y", "z", "{", "|", "}", "~" >>
\* cipher.update(plaintext, 'utf8', ...) and decipher.update(..., 'utf8')
Utf8Encode(text) ==
    [i \in 1..Len(text) |-> 31 + CHOOSE c \in 1..Len(Ascii) : Ascii[c] = text[i]]
Utf8Decode(bytes) == [i \in 1..Len(bytes) |-> Ascii[bytes[i] - 31]]

RECURSIVE Flatten(_)
Flatten(ss) == IF ss = <<>> THEN <<>> ELSE Head(ss) \o Flatten(Tail(ss))

\* buf.toString('hex'): two lower-case digits per byte
HexDigits == <<"0", "1", "2", "3", "4", "5", "6", "7", "8", "9", "a", "b", "c", "d", "e", "f">>
\* one digit for a byte below 16
HexByteNoPad(b) ==
    IF b < 16 THEN <<HexDigits[b + 1]>>
    ELSE <<HexDigits[(b \div 16) + 1], HexDigits[(b % 16) + 1]>>

HexByte(b) == <<HexDigits[(b \div 16) + 1], HexDigits[(b % 16) + 1]>>
ToHex(bytes) == Flatten([i \in 1..Len(bytes) |-> HexByte(bytes[i])])

\* Buffer.from(s, 'hex') and decipher.update(s, 'hex', ...): digits of either
\* case, and decoding stops at the first pair that is not two hex digits
HexVal(ch) ==
    LET upper == <<"A", "B", "C", "D", "E", "F">> IN
    IF \E i \in 1..16 : HexDigits[i] = ch
    THEN (CHOOSE i \in 1..16 : HexDigits[i] = ch) - 1
    ELSE IF \E i \in 1..6 : upper[i] = ch
    THEN 9 + CHOOSE i \in 1..6 : upper[i] = ch
    ELSE -1
RECURSIVE HexDecode(_)
HexDecode(str) ==
    IF Len(str) < 2 \/ HexVal(str[1]) < 0 \/ HexVal(str[2]) < 0 THEN <<>>
    ELSE <<16 * HexVal(str[1]) + HexVal(str[2])>> \o HexDecode(Tail(Tail(str)))

\* encryptedString.split(':')
RECURSIVE Split(_)
Split(str) ==
    IF \E i \in 1..Len(str) : str[i] = ":"
    THEN LET i == CHOOSE j \in 1..Len(str) :
                     str[j] = ":" /\ \A k \in 1..(j - 1) : str[k] # ":"
         IN  <<SubSeq(str, 1, i - 1)>> \o Split(SubSeq(str, i + 1, Len(str)))
    ELSE <<str>>

\* JSON.stringify of a payload {firstName: string, age: number}
EscapeChar(ch) ==
    IF ch = "\"" THEN <<"\\", "\"">>
    ELSE IF ch = "\\" THEN <<"\\", "\\">>
    ELSE <<ch>>
JsonString(str) == <<"\"">> \o Flatten([i \in 1..Len(str) |-> EscapeChar(str[i])]) \o <<"\"">>
RECURSIVE Decimal(_)
Decimal(n) == IF n < 10 THEN <<HexDigits[n + 1]>>
              ELSE Decimal(n \div 10) \o <<HexDigits[(n % 10) + 1]>>
JsonKeys ==
    [firstName |-> <<"f", "i", "r", "s", "t", "N", "a", "m", "e">>,
     age |-> <<"a", "g", "e">>]
JsonStringify(x) ==
    <<"{">> \o JsonString(JsonKeys.firstName) \o <<":">> \o JsonString(x.firstName)
    \o <<",">> \o JsonString(JsonKeys.age) \o <<":">> \o Decimal(x.age) \o <<"}">>

\* JSON.parse of such a text: [ok, value]
\* the string literal that starts at text[i] (an opening quote): its value
\* and the position after its closing quote; next = 0 when it is not closed
RECURSIVE ReadString(_, _, _)
ReadString(text, i, acc) ==
    IF i > Len(text) THEN [val |-> acc, next |-> 0]
    ELSE IF text[i] = "\"" THEN [val |-> acc, next |-> i + 1]
    ELSE IF text[i] = "\\"
         THEN IF i + 1 > Len(text) THEN [val |-> acc, next |-> 0]
              ELSE ReadString(text, i + 2, Append(acc, text[i + 1]))
    ELSE ReadString(text, i + 1, Append(acc, text[i]))
RECURSIVE ReadNumber(_, _, _)
ReadNumber(text, i, acc) ==
    IF i <= Len(text) /\ text[i] \in Digits
    THEN ReadNumber(text, i + 1, 10 * acc + HexVal(text[i]))
    ELSE [val |-> acc, next |-> i]
Expect(text, i, lit) ==
    i > 0 /\ i + Len(lit) - 1 <= Len(text) /\ SubSeq(text, i, i + Len(lit) - 1) = lit
JsonParse(text) ==
    LET open == <<"{">> \o JsonString(JsonKeys.firstName) \o <<":", "\"">>
        name == ReadString(text, Len(open) + 1, <<>>)
        mid == <<",">> \o JsonString(JsonKeys.age) \o <<":">>
        age == ReadNumber(text, name.next + Len(mid), 0)
    IN  IF /\ Expect(text, 1, open)
           /\ name.next > 0
           /\ Expect(text, name.next, mid)
           /\ age.next > name.next + Len(mid)
           /\ Expect(text, age.next, <<"}">>)
           /\ age.next = Len(text)
        THEN [ok |-> TRUE, value |-> [firstName |-> name.val, age |-> age.val]]
        ELSE [ok |-> FALSE, value |-> NoPayload]

\* getEncryptionKey(): the fixed, valid key
Key == 7
RECURSIVE Xor(_, _)
Xor(a, b) == IF a = 0 /\ b = 0 THEN 0
             ELSE ((a + b) % 2) + 2 * Xor(a \div 2, b \div 2)
Keystream(key, iv, i) == (key * 31 + iv[((i - 1) % Len(iv)) + 1] * 7 + i * 13) % 256
\* cipher.update + cipher.final, and decipher.update: counter mode
GcmCipher(key, iv, bytes) == [i \in 1..Len(bytes) |-> Xor(bytes[i], Keystream(key, iv, i))]
\* cipher.getAuthTag()
GcmTag(key, iv, ct) ==
    [j \in 1..AUTH_TAG_LENGTH |-> (key + iv[((j - 1) % Len(iv)) + 1] + Len(ct) + j) % 256]
\* an authentication that ignores the tag
GcmAuthenticNoTag(iv, ct, tag) == iv = box.sealed.iv /\ ct = box.sealed.ct

\* decipher.setAuthTag + decipher.final(): authentic or throws
GcmAuthentic(iv, ct, tag) == box.sealed = [iv |-> iv, ct |-> ct, tag |-> tag]

Sealed(iv, plain) ==
    LET ct == GcmCipher(Key, iv, plain)
    IN  [iv |-> iv, ct |-> ct, tag |-> GcmTag(Key, iv, ct)]

\* encryptData(data) with the IV that crypto.randomBytes returned
encryptData(x, iv) ==
    LET e == Sealed(iv, Utf8Encode(JsonStringify(x)))
    IN  [NoStored EXCEPT !.text = ToHex(e.iv) \o <<":">> \o ToHex(e.tag) \o <<":">> \o ToHex(e.ct)]

Throw(msg) == [NoOut EXCEPT !.error = msg]

decryptData(encryptedString) ==
    LET parts == Split(encryptedString) IN
    IF Len(parts) # 3 THEN Throw("Invalid encrypted data format")
    ELSE
    LET iv == HexDecode(parts[1])
        authTag == HexDecode(parts[2])
        ct == HexDecode(parts[3])
    IN  IF Len(iv) # IV_LENGTH THEN Throw("Invalid IV length")
        ELSE IF Len(authTag) # AUTH_TAG_LENGTH THEN Throw("Invalid auth tag length")
        ELSE IF ~GcmAuthentic(iv, ct, authTag) THEN Throw("unable to authenticate data")
        ELSE LET parsed == JsonParse(Utf8Decode(GcmCipher(Key, iv, ct)))
             IN  IF parsed.ok THEN [NoOut EXCEPT !.ok = TRUE, !.payload = parsed.value]
                 ELSE Throw("SyntaxError")

\* encryptBuffer(buffer)
encryptBuffer(b, iv) ==
    LET e == Sealed(iv, b)
    IN  [NoStored EXCEPT !.content = e.ct, !.iv = ToHex(e.iv), !.authTag = ToHex(e.tag)]

\* decryptBuffer(encryptedContent, ivHex, authTagHex)
decryptBuffer(encryptedContent, ivHex, authTagHex) ==
    LET iv == HexDecode(ivHex)
        authTag == HexDecode(authTagHex)
    IN  IF Len(authTag) # AUTH_TAG_LENGTH THEN Throw("Invalid authentication tag length")
        ELSE IF ~GcmAuthentic(iv, encryptedContent, authTag) THEN Throw("unable to authenticate data")
        ELSE [NoOut EXCEPT !.ok = TRUE, !.blob = GcmCipher(Key, iv, encryptedContent)]

\* the inputs: payloads, blobs, the IVs randomBytes may return, and the
\* characters and bytes written over one position of a stored value
Payloads ==
    {[firstName |-> n, age |-> a] : n \in {<<"a">>, <<"\"">>, <<"b", "\\">>},
                                    a \in {7, 150}}
BlobBytes == {0, 10, 255}
Blobs == SeqsUpTo(BlobBytes, MaxBlobLen)
Ivs == {[j \in 1..IV_LENGTH |-> v] : v \in {10, 171}}
TamperChars == {"0", "A", "z", ":"}

EncryptData(iv) ==
    /\ box.pc = "idle" /\ box.kind = "data"
    /\ LET stored == encryptData(box.x, iv) IN
       box' = [box EXCEPT !.pc = "stored",
                          !.sealed = Sealed(iv, Utf8Encode(JsonStringify(box.x))),
                          !.produced = stored, !.stored = stored]
    /\ UNCHANGED <<phone, masked, env, durable, cache, calls, st, lastRead, ghost, limiter>>

EncryptBuffer(iv) ==
    /\ box.pc = "idle" /\ box.kind = "buffer"
    /\ LET stored == encryptBuffer(box.b, iv) IN
       box' = [box EXCEPT !.pc = "stored", !.sealed = Sealed(iv, box.b),
                          !.produced = stored, !.stored = stored]
    /\ UNCHANGED <<phone, masked, env, durable, cache, calls, st, lastRead, ghost, limiter>>

\* the stored value is changed at one position, outside the program
Tamper(field, pos, v) ==
    /\ box.pc = "stored" /\ box.stored = box.produced
    /\ pos \in 1..Len(box.stored[field])
    /\ box.stored[field][pos] # v
    /\ box' = [box EXCEPT !.stored[field][pos] = v]
    /\ UNCHANGED <<phone, masked, env, durable, cache, calls, st, lastRead, ghost, limiter>>

DecryptData ==
    /\ box.pc = "stored" /\ box.kind = "data"
    /\ box' = [box EXCEPT !.pc = "opened", !.out = decryptData(box.stored.text)]
    /\ UNCHANGED <<phone, masked, env, durable, cache, calls, st, lastRead, ghost, limiter>>

DecryptBuffer ==
    /\ box.pc = "stored" /\ box.kind = "buffer"
    /\ box' = [box EXCEPT !.pc = "opened",
                          !.out = decryptBuffer(box.stored.content, box.stored.iv,
                                                box.stored.authTag)]
    /\ UNCHANGED <<phone, masked, env, durable, cache, calls, st, lastRead, ghost, limiter>>

\* getUserData from "Decrypt user data" on, for a link that passed the checks
GetUserDataDecrypt ==
    /\ box.pc = "stored" /\ box.kind = "data"
    /\ LET d == decryptData(box.stored.text) IN
       box' = [box EXCEPT !.pc = "read", !.out = d,
                          !.resp = [op |-> "getUserData", success |-> d.ok,
                                    status |-> 0, hasPayload |-> d.ok]]
    /\ UNCHANGED <<phone, masked, env, durable, cache, calls, st, lastRead, ghost, limiter>>

\* GET /api/stream/[token] from "Decrypt data" on: 500 or the stream
StreamDecrypt ==
    /\ box.pc = "stored" /\ box.kind = "data"
    /\ LET d == decryptData(box.stored.text) IN
       box' = [box EXCEPT !.pc = "read", !.out = d,
                          !.resp = [op |-> "stream", success |-> d.ok,
                                    status |-> IF d.ok THEN 200 ELSE 500,
                                    hasPayload |-> d.ok]]
    /\ UNCHANGED <<phone, masked, env, durable, cache, calls, st, lastRead, ghost, limiter>>

InitCrypto ==
    /\ InitStores /\ phone = <<>> /\ masked = <<>>
    /\ redisConfigured
    /\ box \in {[NoBox EXCEPT !.kind = "data", !.x = x] : x \in Payloads}
               \cup {[NoBox EXCEPT !.kind = "buffer", !.b = b] : b \in Blobs}
NextCrypto ==
    \/ \E iv \in Ivs : EncryptData(iv)
    \/ \E iv \in Ivs : EncryptBuffer(iv)
    \/ \E pos \in 1..Len(box.stored.text), ch \in TamperChars : Tamper("text", pos, ch)
    \/ \E pos \in 1..(2 * IV_LENGTH), ch \in TamperChars : Tamper("iv", pos, ch)
    \/ \E pos \in 1..(2 * AUTH_TAG_LENGTH), ch \in TamperChars : Tamper("authTag", pos, ch)
    \/ \E pos \in 1..MaxBlobLen, v \in BlobBytes : Tamper("content", pos, v)
    \/ DecryptData
    \/ DecryptBuffer
    \/ GetUserDataDecrypt
    \/ StreamDecrypt
SpecCrypto == InitCrypto /\ [][NextCrypto]_vars

\* C25: under the fixed key, decryptData(encryptData(x)) = x for every
\* payload x, and decryptBuffer of what encryptBuffer(b) returned is b for
\* every blob b.
C25_EncryptionRoundTrip ==
    (box.pc = "opened" /\ box.stored = box.produced)
    => /\ box.out.ok
       /\ box.kind = "data" => box.out.payload = box.x
       /\ box.kind = "buffer" => box.out.blob = box.b

C25_Witness ==
    /\ box.pc = "opened" /\ box.stored = box.produced
    /\ box.kind = "data"
    /\ \E i \in 1..Len(box.x.firstName) : box.x.firstName[i] = "\\"
    /\ box.out.ok /\ box.out.payload = box.x

\* the bytes that decoding the stored value yields are not the bytes that
\* encryption produced
StoredBytesDiffer ==
    IF box.kind = "data"
    THEN LET parts == Split(box.stored.text)
         IN  \/ Len(parts) # 3
             \/ [iv |-> HexDecode(parts[1]), ct |-> HexDecode(parts[3]),
                 tag |-> HexDecode(parts[2])] # box.sealed
    ELSE [iv |-> HexDecode(box.stored.iv), ct |-> box.stored.content,
          tag |-> HexDecode(box.stored.authTag)] # box.sealed

MAX_FILE_SIZE == 15 * 1024 * 1024
MAX_TOTAL_SIZE == 50 * 1024 * 1024
ACCEPTED_FILE_TYPES ==
    {"application/vnd.openxmlformats-officedocument.spreadsheetml.sheet",
     "application/vnd.ms-excel", "text/csv", "image/png", "image/jpeg",
     "application/pdf", "text/plain"}

\* userDataSchema.safeParse, the validityMinutes field
validityMinutesOk(validity) == validity >= 1 /\ validity <= 1440
\* fileSchema.safeParse({size, type})
fileSchema(f) == f.size <= MAX_FILE_SIZE /\ f.type \in ACCEPTED_FILE_TYPES
\* the entries of formData.getAll('files') that are kept: size > 0
KeptFiles(files) == SelectSeq(files, LAMBDA f : f.size > 0)

\* createSecureLinkWithFiles(formData): the text fields are validated, then
\* each kept file; only then the transaction writes the rows
CreateSecureLinkWithFiles(l, validity, files) ==
    LET ok == /\ validityMinutesOk(validity)
              /\ \A i \in 1..Len(KeptFiles(files)) : fileSchema(KeptFiles(files)[i])
    IN
    /\ l \notin created
    /\ l = Cardinality(created) + 1
    /\ lastRead' = [op |-> "createSecureLinkWithFiles", success |-> ok,
                    validity |-> validity, files |-> files]
    /\ IF ok
       THEN /\ created' = created \cup {l}
            /\ userData' = userData \cup {l}
            /\ secureLink' = secureLink @@
                   (l :> [expiresAt |-> calculateExpiry(validity),
                          isUsed |-> FALSE, isRevoked |-> FALSE])
            /\ auditLog' = Append(auditLog, Audit("CREATED", l))
       ELSE UNCHANGED durable
    /\ UNCHANGED <<env, fns, limiter, cache, calls, st, ghost>>

\* one request: validities around both ends of the range, files around the
\* per-file limit, of an accepted and of another type, and empty ones
UploadValidities == {0, 1, 1440, 1441}
UploadFileKinds ==
    {[size |-> 0, type |-> "text/html"],
     [size |-> 1, type |-> "text/html"],
     [size |-> 1, type |-> "application/pdf"],
     [size |-> MAX_FILE_SIZE, type |-> "application/pdf"],
     [size |-> MAX_FILE_SIZE + 1, type |-> "application/pdf"]}
NextUpload ==
    /\ lastRead = NoRead
    /\ \E v \in UploadValidities, files \in SeqsUpTo(UploadFileKinds, MaxFiles) :
          CreateSecureLinkWithFiles(1, v, files)
SpecUpload == Init /\ [][NextUpload]_vars

RECURSIVE TotalSize(_)
TotalSize(files) == IF files = <<>> THEN 0 ELSE Head(files).size + TotalSize(Tail(files))

\* C27: createSecureLinkWithFiles rejects, without any write to the durable
\* store, every request with a validity outside 1..1440 minutes, a file
\* larger than MAX_FILE_SIZE, a file whose type is not in ACCEPTED_FILE_TYPES,
\* or files whose sizes add up to more than MAX_TOTAL_SIZE.
C27_BoundViolationsRejectedBeforeWrite ==
    [][(/\ lastRead'.op = "createSecureLinkWithFiles"
        /\ LET files == KeptFiles(lastRead'.files) IN
             \/ lastRead'.validity < 1 \/ lastRead'.validity > 1440
             \/ \E i \in 1..Len(files) : files[i].size > MAX_FILE_SIZE
             \/ \E i \in 1..Len(files) : files[i].type \notin ACCEPTED_FILE_TYPES
             \/ TotalSize(files) > MAX_TOTAL_SIZE)
       => (~lastRead'.success /\ UNCHANGED durable)]_vars

\* one link from creation through verification, reads, revocation with
\* immediate deletion and cleanup; both cache calls of a read have the same
\* outcome
NextUsed ==
    \/ Tick(MaxTime)
    \/ \E v \in Validities : CreateSecureLink(1, v)
    \/ \E ttl \in Ttls, ok \in CallOutcomes : VerifyOTP(1, "s1", ttl, ok)
    \/ \E c \in {"s1", NoCookie}, ok \in CallOutcomes : GetUserData(1, c, ok, ok)
    \/ \E c \in {"s1", NoCookie}, ok \in CallOutcomes : GetFullUserData(1, c, ok, ok)
    \/ \E c \in {"s1", NoCookie}, ok \in CallOutcomes : StreamAdmit(1, c, ok, ok)
    \/ RevokeFind("o1", 1, TRUE)
    \/ RevokeInvalidate("o1", FALSE)
    \/ RevokeTx("o1")
    \/ RevokeReturn("o1")
    \/ CleanupSelect("c1")
    \/ CleanupTx("c1")
SpecUsed == Init /\ [][NextUsed]_vars

\* C28: a link's isUsed flag never goes back to false and a deleted link is
\* never created again, so the flag becomes true at most once; it becomes
\* true only in a verification step, on a link that is neither revoked nor
\* expired; a verification never succeeds on a link already used; and
\* getUserData, getFullUserData and the stream admission return the payload
\* only for a used link.
C28_UsedFlagOneWay ==
    /\ [](lastRead.op \in ReadOps /\ lastRead.success
            => LinkExists(lastRead.token) /\ secureLink[lastRead.token].isUsed)
    /\ [][\A l \in LinkIds :
            /\ (LinkExists(l) /\ secureLink[l].isUsed /\ LinkExists(l)')
               => secureLink'[l].isUsed
            /\ (l \in created /\ ~LinkExists(l)) => ~LinkExists(l)'
            /\ (LinkExists(l) /\ ~secureLink[l].isUsed
                  /\ LinkExists(l)' /\ secureLink'[l].isUsed)
               => /\ ~secureLink[l].isRevoked /\ ~IsExpired(l)
                  /\ secureLink' = [secureLink EXCEPT ![l].isUsed = TRUE]
                  /\ UNCHANGED <<userData, created, auditLog>>
            /\ (\E s \in SessionIds, ttl \in Ttls, ok \in BOOLEAN : VerifyOTP(l, s, ttl, ok))
               => ~secureLink[l].isUsed]_vars

C28_Witness ==
    /\ lastRead.op = "getUserData" /\ lastRead.success
    /\ lastRead.sid # NoCookie
    /\ secureLink[lastRead.token].isUsed

\* ------------------------------------------ concurrent createSession
\* generateSessionId(): every call brings its own session id
CsSid(p) == IF p = "a" THEN "s1" ELSE "s2"

\* createSession up to: const existingSessionId = await redis.get(activeKey)
CsGet(p, t, ttl) ==
    /\ redisConfigured
    /\ cs[p].pc = "idle"
    /\ cs' = [cs EXCEPT ![p] = [pc |-> "read", token |-> t, sid |-> CsSid(p),
                                 ttl |-> ttl, existing |-> GetActive(t)]]
    /\ lastRead' = NoRead
    /\ UNCHANGED <<env, fns, limiter, durable, cache, rv, cl, st, ghost>>

\* createSession: await pipeline.exec(), the del of the session read
\* earlier and the two sets
CsExec(p) ==
    /\ cs[p].pc = "read"
    /\ session' = SessionAfterCreate(cs[p].token, cs[p].sid, cs[p].ttl, cs[p].existing)
    /\ active' = ActiveAfterCreate(cs[p].token, cs[p].sid, cs[p].ttl)
    /\ sessHist' = [sessHist EXCEPT ![cs[p].token].last = cs[p].sid,
                                    ![cs[p].token].at = now,
                                    ![cs[p].token].ttl = cs[p].ttl,
                                    ![cs[p].token].prev = sessHist[cs[p].token].last]
    /\ cs' = [cs EXCEPT ![p].pc = "done"]
    /\ lastRead' = NoRead
    /\ UNCHANGED <<env, fns, limiter, durable, revoked, rv, cl, st, hist>>

\* two callers create a session for token 1, each once
NextRace ==
    \/ Tick(MaxTime)
    \/ \E p \in Callers, ttl \in Ttls : CsGet(p, 1, ttl)
    \/ \E p \in Callers : CsExec(p)
SpecRace == Init /\ [][NextRace]_vars

\* C29: whatever the interleaving of the reads of the active marker and the
\* pipelines of concurrent createSession calls for one token, at most one
\* session id passes validateSession in every state, and once all calls have
\* completed the id that passes is the one whose pipeline ran last, which
\* passes as long as its keys have not expired.
C29_OneValidSessionLastWriterWins ==
    /\ Cardinality({s \in SessionIds : validateSession(1, s)}) <= 1
    /\ (\A p \in Callers : cs[p].pc = "done")
       => /\ \A s \in SessionIds : validateSession(1, s) => s = sessHist[1].last
          /\ now < sessHist[1].at + sessHist[1].ttl
             => validateSession(1, sessHist[1].last)

C29_Witness ==
    /\ \A p \in Callers : cs[p].pc = "done" /\ cs[p].existing = Nil
    /\ \A s \in SessionIds : KeyExists(session[1][s])
    /\ validateSession(1, sessHist[1].last)

\* C30: of two concurrent revokeAccess calls for one link at most one
\* returns success, and one REVOKED audit entry at most (and one
\* DATA_DELETED entry at most) is ever written for the link, which once
\* a call has succeeded is exactly one.
C30_RevokeMutuallyExclusive ==
    \A l \in LinkIds :
        /\ Cardinality({c \in Owners : rv[c].pc = "done" /\ rv[c].link = l
                                       /\ rv[c].result = "ok"}) <= 1
        /\ AuditCount(auditLog, "REVOKED", l) + AuditCount(auditLog, "REVOKED", NULL) <= 1
        /\ AuditCount(auditLog, "DATA_DELETED", l)
             + AuditCount(auditLog, "DATA_DELETED", NULL) <= 1
        /\ (\E c \in Owners : rv[c].pc = "done" /\ rv[c].link = l /\ rv[c].result = "ok")
           => AuditCount(auditLog, "REVOKED", l) + AuditCount(auditLog, "REVOKED", NULL) = 1

\* number of audit entries with this action, whatever they refer to
ActionCount(log, action) == Cardinality({i \in 1..Len(log) : log[i].action = action})

\* C31: a revokeAccess transaction that removes a payload row writes a
\* DATA_DELETED audit entry in the same commit, no step ever removes a
\* DATA_DELETED entry, and a transaction that fails changes neither the
\* payload rows nor the audit log: no state has a payload removed by
\* revocation without a DATA_DELETED entry written for it.
C31_DeletionAuditedBeforeDelete ==
    [][/\ ActionCount(auditLog', "DATA_DELETED") >= ActionCount(auditLog, "DATA_DELETED")
       /\ \A c \in Owners :
            (/\ rv[c].pc = "tx" /\ rv'[c].pc = "done"
             /\ rv[c].link \in userData /\ rv[c].link \notin userData')
            => /\ ActionCount(auditLog', "DATA_DELETED")
                    = ActionCount(auditLog, "DATA_DELETED") + 1
               /\ rv'[c].result = "ok"
       /\ \A c \in Owners :
            (rv[c].pc = "tx" /\ rv'[c].pc = "done" /\ rv'[c].result # "ok")
            => UNCHANGED <<userData, auditLog>>]_vars

C31_Witness ==
    \E l \in LinkIds :
        /\ l \in created /\ l \notin userData
        /\ l \in hist.revokeOk /\ l \notin hist.cleaned
        /\ ActionCount(auditLog, "DATA_DELETED") = 1

\* a heartbeat callback finishes (each of its branches enqueues or closes)
\* on a controller that is closed already
HeartbeatOnClosed ==
    st.closed /\ st.pc \in {"hb_db", "hb_ttl"} /\ st'.pc = "idle"

\* the abort listener calls controller.close() on a closed controller
AbortOnClosed == st.closed /\ ~st.aborted /\ st'.aborted

\* C32: stream teardown is idempotent under every interleaving of heartbeat
\* callbacks, the client-abort listener and internal errors: once closed the
\* channel stays closed and no enqueue or close is attempted on it again, and
\* at most one SESSION_ENDED audit entry is written per stream.
C32_TeardownIdempotent ==
    /\ [](ActionCount(auditLog, "SESSION_ENDED") <= 1)
    /\ [][/\ st.closed => st'.closed
          /\ ~HeartbeatOnClosed
          /\ ~AbortOnClosed]_vars

\* the longest link validity of the countdown runs, in seconds: two
\* heartbeats fall inside it
CountdownValidity == 12

\* one link and one streaming connection that stays open, with a cache that
\* answers every call whenever it is configured
NextCountdown ==
    \/ Tick(StreamMaxTime)
    \/ \E v \in {StreamValidity, CountdownValidity} : CreateSecureLink(1, v)
    \/ \E ttl \in {MaxTtl, StreamTtl} : VerifyOTP(1, "s1", ttl, redisConfigured)
    \/ StreamOpen(1, "s1", redisConfigured, redisConfigured)
    \/ HbStart
    \/ HbDbRead
    \/ HbTtl(redisConfigured)

SpecCountdown == Init /\ [][NextCountdown]_vars

\* this step of the heartbeat callback enqueues a heartbeat event
HeartbeatSent ==
    /\ st.pc = "hb_ttl"
    /\ Len(st'.events) = Len(st.events) + 1
    /\ st'.events[Len(st'.events)].type = "heartbeat"

\* C33: every heartbeat event carries the minimum of the durable remaining
\* seconds and the remaining seconds the cache reports for the stream's
\* session, whatever the cache reports (a session with no time left or no
\* session at all included); the durable value is used alone only when the
\* cache is unreachable.
C33_HeartbeatCarriesMinimum ==
    [][HeartbeatSent =>
        st'.events[Len(st'.events)].remainingSeconds =
            IF redisConfigured
            THEN Min(st.dbRemainingSeconds, getSessionTTL(st.token, st.sid))
            ELSE st.dbRemainingSeconds]_vars

\* the remainingSeconds of the heartbeat events enqueued so far, in order
HeartbeatValues ==
    LET hb == SelectSeq(st.events, LAMBDA e : e.type = "heartbeat")
    IN [i \in 1..Len(hb) |-> hb[i].remainingSeconds]

\* C39: within one stream the remainingSeconds of successive heartbeats are
\* non-increasing, each is at least 1, and none exceeds the remainingSeconds
\* of the initial data event.
C39_CountdownNonIncreasing ==
    st.pc # "none" =>
        /\ \A i \in 1..Len(HeartbeatValues) :
              /\ HeartbeatValues[i] >= 1
              /\ HeartbeatValues[i] <= st.events[1].remainingSeconds
        /\ \A i, j \in 1..Len(HeartbeatValues) :
              i < j => HeartbeatValues[j] <= HeartbeatValues[i]

\* this step enqueues the terminal event of the stream
TerminalSent ==
    /\ st.pc \in {"hb_db", "hb_ttl"}
    /\ Len(st'.events) = Len(st.events) + 1
    /\ st'.events[Len(st'.events)].type \in {"revoked", "expired"}

\* C34: the terminal event matches the cause of the end of the stream: it is
\* 'revoked' only if the owner revoked the link, and a stream whose link
\* merely passed its expiry ends with 'expired', also when scheduled cleanup
\* has deleted the link already.
C34_TerminalEventMatchesCause ==
    [][TerminalSent =>
        (st'.events[Len(st'.events)].type = "revoked"
            <=> st.token \in hist.revokeOk)]_vars

\* C35: after a revokeAccess call that returned success=false the cache
\* holds no revoked marker for the link unless a revocation of it has been
\* committed (or another call is between its cache step and its
\* transaction): a failed call leaves the cache as it found it, and marker
\* and durable flag do not disagree.
C35_FailedRevokeLeavesCacheUnchanged ==
    \A c \in Owners :
        (/\ rv[c].pc = "done" /\ rv[c].result # "ok"
         /\ rv[c].link \in LinkIds
         /\ rv[c].link \notin hist.revokeOk
         /\ \A d \in Owners : ~(rv[d].pc = "tx" /\ rv[d].link = rv[c].link))
        => revoked[rv[c].link] = 0

\* C36: after a successful revokeAccess, with or without immediate
\* deletion, getLinkStatus with the link's owner token succeeds and reports
\* isRevoked = true as long as scheduled cleanup has not removed the link.
C36_StatusAfterRevoke ==
    (/\ lastRead.op = "getLinkStatus"
     /\ lastRead.token \in hist.revokeOk
     /\ lastRead.token \notin hist.cleaned)
    => (lastRead.success /\ lastRead.isRevoked)

\* C37: every rate-limit counter key that exists has an expiry once the call
\* that created it is past its expire step, also when the cache failed
\* between the increment and the expire step, so that a key that reached
\* its limit is allowed again after at most the window.
C37_CounterAlwaysExpires ==
    (rlKey.val > 0 /\ \A p \in Callers : rlCall[p].pc # "expire")
    => (rlKey.ex > 0 /\ rlKey.ex <= now + RlWindow)

\* one link, one viewer session and a second session id that was never
\* issued, the owner and cleanup, with the two payload reads of the viewer
NextAdmit ==
    \/ Tick(MaxTime)
    \/ \E v \in Validities : CreateSecureLink(1, v)
    \/ \E ttl \in Ttls, ok \in CallOutcomes : VerifyOTP(1, "s1", ttl, ok)
    \/ \E c \in SessionIds, ok \in CallOutcomes : GetFullUserData(1, c, ok, ok)
    \/ \E c \in SessionIds, ok \in CallOutcomes : StreamAdmit(1, c, ok, ok)
    \/ \E del \in BOOLEAN : RevokeFind("o1", 1, del)
    \/ \E ok \in CallOutcomes : RevokeInvalidate("o1", ok)
    \/ RevokeTx("o1")
    \/ RevokeReturn("o1")
    \/ CleanupSelect("c1")
    \/ CleanupTx("c1")

SpecAdmit == Init /\ [][NextAdmit]_vars

\* C38: for every store state, token, non-empty session id and outcome of
\* the two cache calls, the stream admission succeeds (and pushes the
\* initial data event) exactly when getFullUserData(token, sessionId)
\* succeeds on that state; a stream request just answered agrees with
\* getFullUserData, and a getFullUserData call just answered agrees with the
\* stream admission.
C38_AdmissionMatchesFullRead ==
    /\ \A t \in LinkIds, c \in SessionIds, ok1 \in CallOutcomes, ok2 \in CallOutcomes :
          StreamAdmission(t, c, ok1, ok2).success
              = getFullUserData(t, c, ok1, ok2).success
    /\ (lastRead.op = "stream" /\ lastRead.sid \in SessionIds) =>
          lastRead.success =
              getFullUserData(lastRead.token, lastRead.sid,
                              lastRead.revokedInRedis # "null",
                              lastRead.isValid # "null").success
    /\ (lastRead.op = "getFullUserData" /\ lastRead.sid \in SessionIds) =>
          lastRead.success =
              StreamAdmission(lastRead.token, lastRead.sid,
                              lastRead.revokedInRedis # "null",
                              lastRead.isValid # "null").success

\* a stream request with a session id has been admitted
C38_Witness ==
    /\ lastRead.op = "stream"
    /\ lastRead.sid \in SessionIds
    /\ lastRead.success
    /\ lastRead.isValid = "true"

\* two links, their owner, cleanup and the monitoring query
NextStats ==
    \/ Tick(MaxTime)
    \/ \E l \in LinkIds, v \in Validities : CreateSecureLink(l, v)
    \/ \E l \in LinkIds, del \in BOOLEAN : RevokeFind("o1", l, del)
    \/ RevokeInvalidate("o1", FALSE)
    \/ RevokeTx("o1")
    \/ RevokeReturn("o1")
    \/ CleanupSelect("c1")
    \/ CleanupTx("c1")
    \/ GetCleanupStats

SpecStats == Init /\ [][NextStats]_vars

\* C40: getCleanupStats reports as pendingCleanup the number of links the
\* next cleanupExpiredData run would delete (expired or revoked, each
\* counted once) and as activeLinks the number of links that are neither
\* expired nor revoked.
C40_StatsMatchCleanup ==
    lastRead.op = "getCleanupStats" =>
        /\ lastRead.pendingCleanup = Cardinality(linksToClean)
        /\ lastRead.activeLinks = Cardinality(DOMAIN secureLink \ linksToClean)

====
